---- MODULE Spec2Model ----
(***************************************************************************)
(* Reader Highlighter Tags: the selection-to-source locator                *)
(* (src/src/core/SelectionLogic.js) and the operations of main.js that     *)
(* read and write the document through it.                                 *)
(*                                                                         *)
(* Text is a sequence of one-character strings.  Offsets are JavaScript    *)
(* offsets (0-based); CharAt and Substring do the conversion.              *)
(***************************************************************************)
EXTENDS Integers, Sequences, FiniteSets, TLC

VARIABLES
    raw,              \* the document as stored in the vault (vault.read / vault.modify)
    snippet,          \* the text of the window's selection (sel.toString())
    context,          \* innerText of the selection's block (<<>> is null / no context)
    occurrenceIndex,  \* getSelectionOccurrence of the selection's block
    candidates,       \* the candidate list of the last search (scored when context is given)
    validCandidates,  \* the candidates that passed the threshold filter
    result,           \* what locateSelection returned
    map,              \* findCandidatesStripped: strippedIndex -> rawIndex
    strippedRaw,      \* findCandidatesStripped: the stripped projection
    lastIndex,        \* regex.lastIndex of the exec loop being stepped
    lastModification, \* the plugin's undo state
    written,          \* number of vault.modify calls made so far
    settings,         \* this.settings: the fields the modification reads
    notice,           \* the text of the last Notice shown
    modal,            \* the modal that is open: "none", "tag" or "annotation"
    pc,               \* the last operation performed / position of the stepped loop
    expansion         \* applyMarkdownModification: expandedStart, expandedEnd and expanded

vars == <<raw, snippet, context, occurrenceIndex, candidates, validCandidates,
          result, map, strippedRaw, lastIndex, lastModification, written,
          settings, notice, modal, pc, expansion>>

----------------------------------------------------------------------------
(* Strings *)

Whitespace == {" ", "\n", "\t"}

IsSpace(c) == c \in Whitespace

CharAt(s, i) == IF i >= 0 /\ i < Len(s) THEN s[i + 1] ELSE "undefined"

Substring(s, a, b) ==
    LET lo == IF a < 0 THEN 0 ELSE IF a > Len(s) THEN Len(s) ELSE a
        hi == IF b < 0 THEN 0 ELSE IF b > Len(s) THEN Len(s) ELSE b
    IN  IF lo <= hi THEN SubSeq(s, lo + 1, hi) ELSE SubSeq(s, hi + 1, lo)

RECURSIVE TrimStart(_)
TrimStart(s) ==
    IF s # <<>> /\ IsSpace(Head(s)) THEN TrimStart(Tail(s)) ELSE s

RECURSIVE TrimEnd(_)
TrimEnd(s) ==
    IF s # <<>> /\ IsSpace(s[Len(s)]) THEN TrimEnd(SubSeq(s, 1, Len(s) - 1)) ELSE s

Trim(s) == TrimEnd(TrimStart(s))

\* str.replace(/\s+/g, ' '): every maximal run of whitespace becomes one space.
RECURSIVE CollapseSpaces(_)
CollapseSpaces(s) ==
    IF s = <<>> THEN <<>>
    ELSE IF IsSpace(Head(s))
         THEN <<" ">> \o CollapseSpaces(TrimStart(s))
         ELSE <<Head(s)>> \o CollapseSpaces(Tail(s))

\* str.replace(/\s+/g, ' ').trim()
Normalize(s) == Trim(CollapseSpaces(s))

\* str.indexOf(c, from): the first offset >= from holding c, or -1.
RECURSIVE IndexOf(_, _, _)
IndexOf(s, c, from) ==
    IF from >= Len(s) THEN -1
    ELSE IF from < 0 THEN IndexOf(s, c, 0)
    ELSE IF s[from + 1] = c THEN from
    ELSE IndexOf(s, c, from + 1)

\* str.lastIndexOf(c, from): the last offset <= from holding c, or -1.
RECURSIVE LastIndexOf(_, _, _)
LastIndexOf(s, c, from) ==
    IF from < 0 THEN -1
    ELSE IF from >= Len(s) THEN LastIndexOf(s, c, Len(s) - 1)
    ELSE IF s[from + 1] = c THEN from
    ELSE LastIndexOf(s, c, from - 1)

----------------------------------------------------------------------------
(* The search pattern: snippet.trim(), metacharacters escaped, whitespace   *)
(* runs replaced by \s+, compiled by new RegExp(pattern, 'g').             *)

RegexMeta == {".", "*", "+", "?", "^", "$", "{", "}", "(", ")", "|", "[", "]", "\\"}

\* .replace(/[.*+?^${}()|[\]\\]/g, '\\$&')
RECURSIVE EscapeRegExp(_)
EscapeRegExp(s) ==
    IF s = <<>> THEN <<>>
    ELSE IF Head(s) \in RegexMeta
         THEN <<"\\", Head(s)>> \o EscapeRegExp(Tail(s))
         ELSE <<Head(s)>> \o EscapeRegExp(Tail(s))

\* The replacement were it to leave out the quantifier: .replace(/\s+/g, '\\s')
RECURSIVE SpacesToClassOnce(_)
SpacesToClassOnce(s) ==
    IF s = <<>> THEN <<>>
    ELSE IF IsSpace(Head(s))
         THEN <<"\\", "s">> \o SpacesToClassOnce(TrimStart(s))
         ELSE <<Head(s)>> \o SpacesToClassOnce(Tail(s))

\* .replace(/\s+/g, '\\s+')
RECURSIVE SpacesToClass(_)
SpacesToClass(s) ==
    IF s = <<>> THEN <<>>
    ELSE IF IsSpace(Head(s))
         THEN <<"\\", "s", "+">> \o SpacesToClass(TrimStart(s))
         ELSE <<Head(s)>> \o SpacesToClass(Tail(s))

PatternSource(snip) == SpacesToClass(EscapeRegExp(Trim(snip)))

\* new RegExp(source): the atoms of the pattern.  "\s" is the whitespace
\* class, "\X" the character X, a "+" after an atom its quantifier, any
\* other character itself.
RECURSIVE Compile(_)
Compile(src) ==
    IF src = <<>> THEN <<>>
    ELSE LET esc  == Head(src) = "\\" /\ Len(src) >= 2
             used == IF esc THEN 2 ELSE 1
             plus == Len(src) > used /\ src[used + 1] = "+"
             atom == [ws   |-> esc /\ src[2] = "s",
                      ch   |-> IF esc THEN src[2] ELSE src[1],
                      plus |-> plus]
         IN  <<atom>> \o Compile(SubSeq(src, used + (IF plus THEN 2 ELSE 1), Len(src)))

AtomMatches(atom, c) == IF atom.ws THEN IsSpace(c) ELSE c = atom.ch

\* The number of consecutive characters from offset p that the atom matches.
RECURSIVE RunLength(_, _, _)
RunLength(atom, text, p) ==
    IF p < Len(text) /\ AtomMatches(atom, text[p + 1])
    THEN 1 + RunLength(atom, text, p + 1)
    ELSE 0

\* The end offset of the match of atoms[k..] at offset p, or -1: a backtracking
\* matcher, a quantified atom taking the longest run first.
RECURSIVE MatchFrom(_, _, _, _)
RECURSIVE MatchPlus(_, _, _, _, _)
MatchFrom(atoms, k, text, p) ==
    IF k > Len(atoms) THEN p
    ELSE IF atoms[k].plus
         THEN MatchPlus(atoms, k, text, p, RunLength(atoms[k], text, p))
         ELSE IF p < Len(text) /\ AtomMatches(atoms[k], text[p + 1])
              THEN MatchFrom(atoms, k + 1, text, p + 1)
              ELSE -1

MatchPlus(atoms, k, text, p, n) ==
    IF n < 1 THEN -1
    ELSE LET e == MatchFrom(atoms, k + 1, text, p + n)
         IN  IF e # -1 THEN e ELSE MatchPlus(atoms, k, text, p, n - 1)

\* regex.exec(text) with regex.lastIndex = from: the leftmost match at an
\* offset >= from, as <<index, end>>, or <<>> for null.
RECURSIVE Exec(_, _, _)
Exec(atoms, text, from) ==
    IF from > Len(text) THEN <<>>
    ELSE LET e == MatchFrom(atoms, 1, text, from)
         IN  IF e # -1 THEN <<from, e>> ELSE Exec(atoms, text, from + 1)

\* findAllCandidates' while loop from regex.lastIndex = from.  exec leaves
\* lastIndex at the end of its match, so the loop ends only when every match
\* is non-empty: the operator is applied to non-empty patterns only, and the
\* loop is stepped (ExecStep) when the pattern may be empty.
RECURSIVE ExecLoop(_, _, _)
ExecLoop(atoms, text, from) ==
    LET m == Exec(atoms, text, from)
    IN  IF m = <<>> THEN <<>>
        ELSE <<[start |-> m[1], end |-> m[2], text |-> Substring(text, m[1], m[2])]>>
             \o ExecLoop(atoms, text, m[2])

findAllCandidates(text, snip) == ExecLoop(Compile(PatternSource(snip)), text, 0)

----------------------------------------------------------------------------
(* findCandidatesStripped: the token regex, one operator per group.  Each   *)
(* gives the end offset of the group's match at offset i, or -1.            *)

Letters == {"a", "b", "c", "d", "e", "f", "g", "h", "i", "j", "k", "l", "m",
            "n", "o", "p", "q", "r", "s", "t", "u", "v", "w", "x", "y", "z",
            "A", "B", "C", "D", "E", "F", "G", "H", "I", "J", "K", "L", "M",
            "N", "O", "P", "Q", "R", "S", "T", "U", "V", "W", "X", "Y", "Z"}

Digits == {"0", "1", "2", "3", "4", "5", "6", "7", "8", "9"}

StartsWith(text, p, lit) ==
    /\ p >= 0
    /\ p + Len(lit) <= Len(text)
    /\ \A k \in 1..Len(lit) : text[p + k] = lit[k]

\* The first offset >= p whose character is in stop, or Len(text).
RECURSIVE SkipTo(_, _, _)
SkipTo(text, p, stop) ==
    IF p >= Len(text) \/ text[p + 1] \in stop THEN p ELSE SkipTo(text, p + 1, stop)

\* The first offset >= p whose character is not in class, or Len(text).
RECURSIVE SkipClass(_, _, _)
SkipClass(text, p, class) ==
    IF p >= Len(text) \/ text[p + 1] \notin class THEN p ELSE SkipClass(text, p + 1, class)

\* (?:[^()"]*(?:\([^)]*\))?[^()"]*(?:"[^"]*")?)\)  from offset p
UrlPart(text, p) ==
    LET stop == {"(", ")", "\""}
        p1 == SkipTo(text, p, stop)
        par == CharAt(text, p1) = "("
        cl == SkipTo(text, p1 + 1, {")"})
        p2 == IF par THEN cl + 1 ELSE p1
        p3 == SkipTo(text, p2, stop)
        quo == CharAt(text, p3) = "\""
        q2 == SkipTo(text, p3 + 1, {"\""})
        p4 == IF quo THEN q2 + 1 ELSE p3
    IN  IF par /\ cl >= Len(text) THEN -1
        ELSE IF quo /\ q2 >= Len(text) THEN -1
        ELSE IF CharAt(text, p4) = ")" THEN p4 + 1
        ELSE -1

\* Group 1: !\[\[(?:[^\]]+)\]\]
MatchEmbed(text, i) ==
    LET j == SkipTo(text, i + 3, {"]"})
    IN  IF StartsWith(text, i, <<"!", "[", "[">>) /\ j > i + 3
           /\ StartsWith(text, j, <<"]", "]">>)
        THEN j + 2 ELSE -1

\* Group 2: !\[(?:[^\]]*)\]\[(?:[^\]]*)\]
MatchImageRef(text, i) ==
    LET j == SkipTo(text, i + 2, {"]"})
        k == SkipTo(text, j + 2, {"]"})
    IN  IF StartsWith(text, i, <<"!", "[">>) /\ StartsWith(text, j, <<"]", "[">>)
           /\ k < Len(text)
        THEN k + 1 ELSE -1

\* Group 3: !\[(?:[^\]]*)\]\( url \)
MatchImageUrl(text, i) ==
    LET j == SkipTo(text, i + 2, {"]"})
    IN  IF StartsWith(text, i, <<"!", "[">>) /\ StartsWith(text, j, <<"]", "(">>)
        THEN UrlPart(text, j + 2) ELSE -1

\* Group 4: \[(?:[^\]]+)\]\[(?:[^\]]*)\]
MatchRefLink(text, i) ==
    LET j == SkipTo(text, i + 1, {"]"})
        k == SkipTo(text, j + 2, {"]"})
    IN  IF StartsWith(text, i, <<"[">>) /\ j > i + 1
           /\ StartsWith(text, j, <<"]", "[">>) /\ k < Len(text)
        THEN k + 1 ELSE -1

\* Group 5: \[(?:[^\]]+)\]\( url \)
MatchLink(text, i) ==
    LET j == SkipTo(text, i + 1, {"]"})
    IN  IF StartsWith(text, i, <<"[">>) /\ j > i + 1
           /\ StartsWith(text, j, <<"]", "(">>)
        THEN UrlPart(text, j + 2) ELSE -1

\* Group 6: \[\[(?:[^\]]+)\]\]
MatchWiki(text, i) ==
    LET j == SkipTo(text, i + 2, {"]"})
    IN  IF StartsWith(text, i, <<"[", "[">>) /\ j > i + 2
           /\ StartsWith(text, j, <<"]", "]">>)
        THEN j + 2 ELSE -1

\* Group 7: \[\^[^\]]+\]
MatchFootnote(text, i) ==
    LET j == SkipTo(text, i + 2, {"]"})
    IN  IF StartsWith(text, i, <<"[", "^">>) /\ j > i + 2 /\ j < Len(text)
        THEN j + 1 ELSE -1

\* Group 8: \$\$[^$]+\$\$
MatchBlockMath(text, i) ==
    LET j == SkipTo(text, i + 2, {"$"})
    IN  IF StartsWith(text, i, <<"$", "$">>) /\ j > i + 2
           /\ StartsWith(text, j, <<"$", "$">>)
        THEN j + 2 ELSE -1

\* Group 9: \$(?:[^$\s]|[^$\s][^$]*[^$\s])\$
MatchInlineMath(text, i) ==
    LET j == SkipTo(text, i + 2, {"$"})
        inner(c) == c # "$" /\ ~IsSpace(c)
    IN  IF StartsWith(text, i, <<"$">>) /\ i + 1 < Len(text)
           /\ inner(CharAt(text, i + 1)) /\ j < Len(text)
           /\ (j = i + 2 \/ inner(CharAt(text, j - 1)))
        THEN j + 1 ELSE -1

\* Group 10: %%[^%]*%%
MatchComment(text, i) ==
    LET j == SkipTo(text, i + 2, {"%"})
    IN  IF StartsWith(text, i, <<"%", "%">>) /\ StartsWith(text, j, <<"%", "%">>)
        THEN j + 2 ELSE -1

\* The backquote character (the one character that is not written as itself).
Backquote == "BACKQUOTE"

\* Group 11: Backquote [^Backquote]+ Backquote
MatchCode(text, i) ==
    LET j == SkipTo(text, i + 1, {Backquote})
    IN  IF StartsWith(text, i, <<Backquote>>) /\ j > i + 1 /\ j < Len(text)
        THEN j + 1 ELSE -1

\* Group 12, first alternative: <https?:\/\/[^>]+>
MatchAutoUrl(text, i) ==
    LET s  == IF CharAt(text, i + 5) = "s" THEN 1 ELSE 0
        b  == i + 5 + s + 3
        j  == SkipTo(text, b, {">"})
    IN  IF StartsWith(text, i, <<"<", "h", "t", "t", "p">>)
           /\ StartsWith(text, i + 5 + s, <<":", "/", "/">>)
           /\ j > b /\ j < Len(text)
        THEN j + 1 ELSE -1

\* Group 12, second alternative: <[a-zA-Z0-9._%+-]+@[a-zA-Z0-9.-]+\.[a-zA-Z]{2,}>
MatchAutoEmail(text, i) ==
    LET local  == Letters \cup Digits \cup {".", "_", "%", "+", "-"}
        domain == Letters \cup Digits \cup {".", "-"}
        a == SkipClass(text, i + 1, local)
        e == SkipClass(text, a + 1, domain)
        q == LastIndexOf(text, ".", e - 1)
    IN  IF StartsWith(text, i, <<"<">>) /\ a > i + 1 /\ CharAt(text, a) = "@"
           /\ CharAt(text, e) = ">"
           /\ q >= a + 2 /\ e - (q + 1) >= 2
           /\ \A k \in (q + 1)..(e - 1) : CharAt(text, k) \in Letters
        THEN e + 1 ELSE -1

MatchAutolink(text, i) ==
    IF MatchAutoUrl(text, i) # -1 THEN MatchAutoUrl(text, i) ELSE MatchAutoEmail(text, i)

\* Group 13: <\/?[a-zA-Z][^>]*>
MatchHtmlTag(text, i) ==
    LET n == IF CharAt(text, i + 1) = "/" THEN i + 2 ELSE i + 1
        j == SkipTo(text, n + 1, {">"})
    IN  IF StartsWith(text, i, <<"<">>) /\ CharAt(text, n) \in Letters /\ j < Len(text)
        THEN j + 1 ELSE -1

EscapableChars == {"*", "_", "[", "]", "(", ")", "{", "}", "#", ">", "+", "-",
                   ".", "!", Backquote, "~", "=", "|", "\\"}

\* Group 14: a backslash and one of the escapable characters
MatchEscape(text, i) ==
    IF StartsWith(text, i, <<"\\">>) /\ i + 1 < Len(text)
       /\ CharAt(text, i + 1) \in EscapableChars
    THEN i + 2 ELSE -1

\* Group 15: \*\*\*
MatchTriple(text, i) ==
    IF StartsWith(text, i, <<"*", "*", "*">>) THEN i + 3 ELSE -1

\* Group 16: \*\*|~~|==
MatchDouble(text, i) ==
    IF \/ StartsWith(text, i, <<"*", "*">>)
       \/ StartsWith(text, i, <<"~", "~">>)
       \/ StartsWith(text, i, <<"=", "=">>)
    THEN i + 2 ELSE -1

\* Group 17: \*|_
MatchSingle(text, i) ==
    IF CharAt(text, i) \in {"*", "_"} /\ i < Len(text) THEN i + 1 ELSE -1

GroupCount == 17

GroupMatch(g, text, i) ==
    CASE g = 1  -> MatchEmbed(text, i)
      [] g = 2  -> MatchImageRef(text, i)
      [] g = 3  -> MatchImageUrl(text, i)
      [] g = 4  -> MatchRefLink(text, i)
      [] g = 5  -> MatchLink(text, i)
      [] g = 6  -> MatchWiki(text, i)
      [] g = 7  -> MatchFootnote(text, i)
      [] g = 8  -> MatchBlockMath(text, i)
      [] g = 9  -> MatchInlineMath(text, i)
      [] g = 10 -> MatchComment(text, i)
      [] g = 11 -> MatchCode(text, i)
      [] g = 12 -> MatchAutolink(text, i)
      [] g = 13 -> MatchHtmlTag(text, i)
      [] g = 14 -> MatchEscape(text, i)
      [] g = 15 -> MatchTriple(text, i)
      [] g = 16 -> MatchDouble(text, i)
      [] OTHER  -> MatchSingle(text, i)

\* The alternation at offset i: the first group that matches, as
\* [group, index, end], or group 0 when none does.
RECURSIVE FirstGroup(_, _, _)
FirstGroup(text, i, g) ==
    IF g > GroupCount THEN [group |-> 0, index |-> i, end |-> i]
    ELSE IF GroupMatch(g, text, i) # -1
         THEN [group |-> g, index |-> i, end |-> GroupMatch(g, text, i)]
         ELSE FirstGroup(text, i, g + 1)

\* tokenRegex.exec(text) with lastIndex = from: the leftmost token.
RECURSIVE tokenRegex(_, _)
tokenRegex(text, from) ==
    IF from >= Len(text) THEN [group |-> 0, index |-> from, end |-> from]
    ELSE LET m == FirstGroup(text, from, 1)
         IN  IF m.group # 0 THEN m ELSE tokenRegex(text, from + 1)

----------------------------------------------------------------------------
(* findCandidatesStripped: building map and strippedRaw.  acc is the pair   *)
(* [map, str] the code grows with map.push(i); strippedRaw += text[i].      *)

\* str.indexOf(lit, 0) for a string lit: the first offset at which lit starts, or -1.
RECURSIVE IndexOfString(_, _, _)
IndexOfString(s, lit, from) ==
    IF from + Len(lit) > Len(s) THEN -1
    ELSE IF StartsWith(s, from, lit) THEN from
    ELSE IndexOfString(s, lit, from + 1)

isFormattingMarker(str, pos) ==
    LET char  == CharAt(str, pos)
        next1 == CharAt(str, pos + 1)
        next2 == CharAt(str, pos + 2)
    IN  IF char = "*" /\ next1 = "*" /\ next2 = "*" THEN 3
        ELSE IF \/ (char = "*" /\ next1 = "*")
                \/ (char = "~" /\ next1 = "~")
                \/ (char = "=" /\ next1 = "=") THEN 2
        ELSE IF char = "*" \/ char = "_" THEN 1
        ELSE 0

\* The push were it to take the character after the offset it records.
PushCharAfter(acc, text, i) ==
    [map |-> Append(acc.map, i), str |-> Append(acc.str, CharAt(text, i + 1))]

\* map.push(i); strippedRaw += text[i];
PushChar(acc, text, i) ==
    [map |-> Append(acc.map, i), str |-> Append(acc.str, CharAt(text, i))]

\* An extraction that also takes the character at endPos.
RECURSIVE extractVisibleTextPastEnd(_, _, _, _)
extractVisibleTextPastEnd(acc, text, startPos, endPos) ==
    IF startPos > endPos THEN acc
    ELSE LET skip == isFormattingMarker(text, startPos)
         IN  IF skip > 0
             THEN extractVisibleTextPastEnd(acc, text, startPos + skip, endPos)
             ELSE extractVisibleTextPastEnd(PushChar(acc, text, startPos), text,
                                            startPos + 1, endPos)

RECURSIVE extractVisibleText(_, _, _, _)
extractVisibleText(acc, text, startPos, endPos) ==
    IF startPos >= endPos THEN acc
    ELSE LET skip == isFormattingMarker(text, startPos)
         IN  IF skip > 0
             THEN extractVisibleText(acc, text, startPos + skip, endPos)
             ELSE extractVisibleText(PushChar(acc, text, startPos), text, startPos + 1, endPos)

RECURSIVE addRawText(_, _, _, _)
addRawText(acc, text, startPos, endPos) ==
    IF startPos >= endPos THEN acc
    ELSE addRawText(PushChar(acc, text, startPos), text, startPos + 1, endPos)

\* The branch of the token loop for match m = [group, index, end].
ProcessToken(acc, text, m) ==
    LET fullMatch  == Substring(text, m.index, m.end)
        matchStart == m.index
        len        == Len(fullMatch)
    IN  CASE m.group = 1 ->
               LET inner     == Substring(fullMatch, 3, len - 2)
                   pipeIndex == IndexOf(inner, "|", 0)
               IN  IF pipeIndex # -1
                   THEN extractVisibleText(acc, text, matchStart + 3 + pipeIndex + 1,
                                           matchStart + len - 2)
                   ELSE extractVisibleText(acc, text, matchStart + 3, matchStart + len - 2)
          [] m.group \in {2, 3} ->
               LET closingBracket ==
                       IndexOfString(fullMatch,
                                     IF m.group = 2 THEN <<"]", "[">> ELSE <<"]", "(">>, 0)
               IN  IF closingBracket # -1
                   THEN extractVisibleText(acc, text, matchStart + 2,
                                           matchStart + closingBracket)
                   ELSE acc
          [] m.group \in {4, 5} ->
               LET closingBracket ==
                       IndexOfString(fullMatch,
                                     IF m.group = 4 THEN <<"]", "[">> ELSE <<"]", "(">>, 0)
               IN  IF closingBracket # -1
                   THEN extractVisibleText(acc, text, matchStart + 1,
                                           matchStart + closingBracket)
                   ELSE acc
          [] m.group = 6 ->
               LET inner     == Substring(fullMatch, 2, len - 2)
                   pipeIndex == IndexOf(inner, "|", 0)
               IN  IF pipeIndex # -1
                   THEN extractVisibleText(acc, text, matchStart + 2 + pipeIndex + 1,
                                           matchStart + len - 2)
                   ELSE extractVisibleText(acc, text, matchStart + 2, matchStart + len - 2)
          [] m.group = 7  -> addRawText(acc, text, matchStart + 2, matchStart + len - 1)
          [] m.group = 8  -> addRawText(acc, text, matchStart + 2, matchStart + len - 2)
          [] m.group = 9  -> addRawText(acc, text, matchStart + 1, matchStart + len - 1)
          [] m.group = 10 -> acc
          [] m.group = 11 -> addRawText(acc, text, matchStart + 1, matchStart + len - 1)
          [] m.group = 12 -> addRawText(acc, text, matchStart + 1, matchStart + len - 1)
          [] m.group = 13 -> acc
          [] m.group = 14 -> PushChar(acc, text, matchStart + 1)
          [] OTHER        -> acc

\* The loop were lastIndex to move one character past the start of each
\* token, not to its end.
RECURSIVE TokenLoopRescan(_, _, _)
TokenLoopRescan(acc, text, last) ==
    LET m == tokenRegex(text, last)
    IN  IF m.group = 0
        THEN addRawText(acc, text, last, Len(text))
        ELSE TokenLoopRescan(ProcessToken(addRawText(acc, text, last, m.index), text, m),
                             text, m.index + 1)

\* The while loop over tokenRegex.exec(text) and the tail loop after it.
RECURSIVE TokenLoop(_, _, _)
TokenLoop(acc, text, last) ==
    LET m == tokenRegex(text, last)
    IN  IF m.group = 0
        THEN addRawText(acc, text, last, Len(text))
        ELSE TokenLoop(ProcessToken(addRawText(acc, text, last, m.index), text, m),
                       text, m.end)

\* [map, str]: the position map and the stripped text of text.
BuildStripped(text) == TokenLoop([map |-> <<>>, str |-> <<>>], text, 0)

\* A translation that ends the span after the end of the text when the match
\* ends the stripped text.
RECURSIVE StrippedLoopPastEnd(_, _, _, _)
StrippedLoopPastEnd(atoms, text, acc, from) ==
    LET m == Exec(atoms, acc.str, from)
    IN  IF m = <<>> THEN <<>>
        ELSE LET rawStart == acc.map[m[1] + 1]
                 rawEnd   == IF m[2] < Len(acc.map) THEN acc.map[m[2] + 1]
                             ELSE Len(text) + 1
             IN  <<[start |-> rawStart, end |-> rawEnd,
                    text |-> Substring(text, rawStart, rawEnd)]>>
                 \o StrippedLoopPastEnd(atoms, text, acc, m[2])

\* The loop over regex.exec(strippedRaw): each stripped match translated to
\* raw offsets through map.
RECURSIVE StrippedLoop(_, _, _, _)
StrippedLoop(atoms, text, acc, from) ==
    LET m == Exec(atoms, acc.str, from)
    IN  IF m = <<>> THEN <<>>
        ELSE LET strippedStart == m[1]
                 strippedEnd   == m[2]
                 rawStart      == acc.map[strippedStart + 1]
                 rawEnd        == IF strippedEnd < Len(acc.map)
                                  THEN acc.map[strippedEnd + 1]
                                  ELSE acc.map[strippedEnd] + 1
             IN  <<[start |-> rawStart, end |-> rawEnd,
                    text |-> Substring(text, rawStart, rawEnd)]>>
                 \o StrippedLoop(atoms, text, acc, strippedEnd)

findCandidatesStripped(text, snip) ==
    StrippedLoop(Compile(PatternSource(snip)), text, BuildStripped(text), 0)

----------------------------------------------------------------------------
(* calculateSimilarity.  A score is a fraction <<numerator, denominator>>   *)
(* with a positive denominator; the code computes it in floating point.     *)

\* str.split(' ')
RECURSIVE Split(_, _)
Split(s, sep) ==
    LET k == IndexOf(s, sep, 0)
    IN  IF k = -1 THEN <<s>>
        ELSE <<Substring(s, 0, k)>> \o Split(Substring(s, k + 1, Len(s)), sep)

Range(seq) == {seq[k] : k \in 1..Len(seq)}

Abs(n) == IF n < 0 THEN -n ELSE n

\* The similarity without the short cut for equal strings.
calculateSimilarityNoShortCut(source, target) ==
    LET sSet         == Range(Split(source, " "))
        tSet         == Range(Split(target, " "))
        intersection == Cardinality(sSet \cap tSet)
        union        == Cardinality(sSet \cup tSet)
        lenDiff      == Abs(Len(source) - Len(target))
    IN  <<7 * intersection * (10 + lenDiff) + 30 * union,
          10 * union * (10 + lenDiff)>>

calculateSimilarity(source, target) ==
    IF source = target THEN <<1000, 1>>
    ELSE LET sSet         == Range(Split(source, " "))
             tSet         == Range(Split(target, " "))
             intersection == Cardinality(sSet \cap tSet)
             union        == Cardinality(sSet \cup tSet)
             lenDiff      == Abs(Len(source) - Len(target))
         IN  \* jaccard * 0.7 + (1 / (1 + lenDiff * 0.1)) * 0.3
             <<7 * intersection * (10 + lenDiff) + 30 * union,
               10 * union * (10 + lenDiff)>>

\* a >= b, a > b and a = b for fractions
ScoreGeq(a, b) == a[1] * b[2] >= b[1] * a[2]

ScoreEq(a, b) == a[1] * b[2] = b[1] * a[2]

\* Math.max(...scores) of a non-empty list
RECURSIVE MaxScore(_)
MaxScore(scores) ==
    IF Len(scores) = 1 THEN scores[1]
    ELSE LET rest == MaxScore(Tail(scores))
         IN  IF ScoreGeq(scores[1], rest) THEN scores[1] ELSE rest

----------------------------------------------------------------------------
(* locateSelection *)

Null == [found |-> FALSE, raw |-> <<>>, start |-> -1, end |-> -1]

Span(text, cand) == [found |-> TRUE, raw |-> text, start |-> cand.start, end |-> cand.end]

\* A search that takes the stripped projection whatever the exact search found.
OrStrippedAlways(text, snip, exact) == findCandidatesStripped(text, snip)

\* Step 2: the stripped search when the exact search found nothing.
OrStripped(text, snip, exact) ==
    IF Len(exact) = 0 THEN findCandidatesStripped(text, snip) ELSE exact

\* Steps 1 and 2: the exact search, then the stripped search.
SearchCandidates(text, snip) == OrStripped(text, snip, findAllCandidates(text, snip))

\* The source block of a candidate: its enclosing line, normalised.
SourceBlock(text, cand) ==
    LET nlBefore   == LastIndexOf(text, "\n", cand.start)
        blockStart == IF nlBefore = -1 THEN 0 ELSE nlBefore
        nlAfter    == IndexOf(text, "\n", cand.end)
        blockEnd   == IF nlAfter = -1 THEN Len(text) ELSE nlAfter
    IN  Normalize(Substring(text, blockStart, blockEnd))

\* candidates.map(cand => ({...cand, score}))
ScoreCandidates(text, cands, cleanContext) ==
    [k \in 1..Len(cands) |->
        [start |-> cands[k].start, end |-> cands[k].end, text |-> cands[k].text,
         score |-> calculateSimilarity(SourceBlock(text, cands[k]), cleanContext)]]

ThresholdNum == 17
ThresholdDen == 20

\* The comparison were it without the tolerance: score >= bestScore
PassesThresholdExact(score, bestScore) ==
    score[1] * bestScore[2] >= bestScore[1] * score[2]

\* score >= bestScore * 0.85
PassesThreshold(score, bestScore) ==
    ThresholdDen * score[1] * bestScore[2] >= ThresholdNum * bestScore[1] * score[2]

RECURSIVE FilterSeq(_, _)
FilterSeq(seq, best) ==
    IF seq = <<>> THEN <<>>
    ELSE IF PassesThreshold(Head(seq).score, best)
         THEN <<Head(seq)>> \o FilterSeq(Tail(seq), best)
         ELSE FilterSeq(Tail(seq), best)

\* bestScore, threshold and candidates.filter(c => c.score >= threshold)
FilterValid(scored) ==
    FilterSeq(scored, MaxScore([k \in 1..Len(scored) |-> scored[k].score]))

\* The choice were an index past the end to take the last valid candidate.
ChooseCandidateClamped(text, cands, valid, occ) ==
    IF occ >= 0 /\ occ < Len(valid) THEN Span(text, valid[occ + 1])
    ELSE IF Len(valid) > 0
         THEN Span(text, valid[IF occ < 0 THEN 1 ELSE Len(valid)])
    ELSE Span(text, cands[1])

\* The choice were the fallback to take candidates[0] whatever its score.
ChooseCandidateFirstFound(text, cands, valid, occ) ==
    IF occ >= 0 /\ occ < Len(valid) THEN Span(text, valid[occ + 1])
    ELSE Span(text, cands[1])

\* The ordinal choice, the fallback to validCandidates[0], and the last
\* return that takes candidates[0].
ChooseCandidate(text, cands, valid, occ) ==
    IF occ >= 0 /\ occ < Len(valid) THEN Span(text, valid[occ + 1])
    ELSE IF Len(valid) > 0 THEN Span(text, valid[1])
    ELSE Span(text, cands[1])

\* What locateSelection has at its return: the candidate list, the valid
\* candidates and the result.
Located(cands, valid, res) ==
    [candidates |-> cands, validCandidates |-> valid, result |-> res]

\* Steps 4 and 5 for the scored candidates.
SelectCandidate(text, scored, valid, occ) ==
    Located(scored, valid, ChooseCandidate(text, scored, valid, occ))

\* Steps 3 to 5 for the candidates found: null for none, the ranking when a
\* context is given, candidates[0] otherwise.
RankCandidates(text, found, ctx, occ) ==
    IF Len(found) = 0 THEN Located(<<>>, <<>>, Null)
    ELSE IF ctx # <<>>
    THEN SelectCandidate(text, found, FilterValid(found), occ)
    ELSE Located(found, <<>>, Span(text, found[1]))

\* locateSelection were it to take the whole text when neither search finds
\* the snippet.
locateSelectionOrWholeText(text, snip, ctx, occ) ==
    IF Len(SearchCandidates(text, snip)) = 0
    THEN Located(<<>>, <<>>, Span(text, [start |-> 0, end |-> Len(text)]))
    ELSE RankCandidates(text,
                        IF ctx # <<>>
                        THEN ScoreCandidates(text, SearchCandidates(text, snip),
                                             Normalize(ctx))
                        ELSE SearchCandidates(text, snip),
                        ctx, occ)

\* locateSelection on the text read from the vault; besides the result, the
\* candidate list and the valid candidates it went through.
locateSelection(text, snip, ctx, occ) ==
    RankCandidates(text,
                   IF ctx # <<>>
                   THEN ScoreCandidates(text, SearchCandidates(text, snip), Normalize(ctx))
                   ELSE SearchCandidates(text, snip),
                   ctx, occ)

----------------------------------------------------------------------------
(* Inputs *)

\* The longest document, snippet and context the bounded inputs hold.
MaxLen == 4

\* All texts over alphabet of length 0..n
RECURSIVE TextsUpTo(_, _)
TextsUpTo(alphabet, n) ==
    IF n = 0 THEN {<<>>}
    ELSE LET shorter == TextsUpTo(alphabet, n - 1)
         IN  shorter \cup {Append(t, c) : t \in shorter, c \in alphabet}

\* Every contiguous piece of text
Pieces(text) ==
    {Substring(text, a, b) : a \in 0..Len(text), b \in 0..Len(text)}

\* The settings the modification reads, as the plugin ships them.
DEFAULT_SETTINGS ==
    [defaultTagPrefix |-> <<>>,
     enableColorHighlighting |-> FALSE,
     highlightColor |-> <<>>]

\* No call of applyMarkdownModification is in its expansion loop.
NoExpansion == [expandedStart |-> 0, expandedEnd |-> 0, expanded |-> FALSE]

\* The state of the plugin with doc in the vault and a selection made.
Selected(doc, snip, ctx, occ) ==
    /\ raw = doc
    /\ snippet = snip
    /\ context = ctx
    /\ occurrenceIndex = occ
    /\ candidates = <<>>
    /\ validCandidates = <<>>
    /\ result = Null
    /\ map = <<>>
    /\ strippedRaw = <<>>
    /\ lastIndex = 0
    /\ lastModification = [set |-> FALSE, original |-> <<>>]
    /\ written = 0
    /\ settings = DEFAULT_SETTINGS
    /\ notice = ""
    /\ modal = "none"
    /\ pc = "selected"
    /\ expansion = NoExpansion

\* logic.locateSelection(view.file, view, snippet, contextText, occurrenceIndex)
\* for a selection that is not empty after trimming.
Locate ==
    /\ pc = "selected"
    /\ Trim(snippet) # <<>>
    /\ \E r \in {locateSelection(raw, snippet, context, occurrenceIndex)} :
           /\ candidates' = r.candidates
           /\ validCandidates' = r.validCandidates
           /\ result' = r.result
    /\ pc' = "located"
    /\ UNCHANGED <<raw, snippet, context, occurrenceIndex, map, strippedRaw,
                   lastIndex, lastModification, written,
                   settings, notice, modal>>
    /\ UNCHANGED expansion

----------------------------------------------------------------------------
(* The exact search: snippets that occur verbatim, no context. *)

ExactAlphabet == {"a", "b", " ", "\n", "*"}

\* Documents that hold the snippet twice, first across a line break.
ExactExamples ==
    { <<"a", "\n", "b", " ", "a", " ", "b">>,
      <<"a", " ", " ", "b", "\n", "a", " ", "b">> }

InitExact ==
    \E doc \in TextsUpTo(ExactAlphabet, MaxLen) \cup ExactExamples :
        \E snip \in Pieces(doc) :
            /\ Trim(snip) # <<>>
            /\ Selected(doc, snip, <<>>, 0)

SpecExact == InitExact /\ [][Locate]_vars

\* C1: a snippet that occurs verbatim in the document and is not empty after
\* trimming is located without context, and the text of the returned span
\* equals the trimmed snippet once whitespace runs are collapsed on both sides.
LocateFindsVerbatimSnippet ==
    pc = "located" =>
        /\ result.found
        /\ Normalize(Substring(raw, result.start, result.end)) = Normalize(Trim(snippet))

\* C1: a located span whose text differs from the snippet in its whitespace
LocateFindsVerbatimSnippetWitness ==
    /\ pc = "located"
    /\ result.found
    /\ Substring(raw, result.start, result.end) # Trim(snippet)
    /\ IndexOfString(raw, Trim(snippet), 0) > result.start

----------------------------------------------------------------------------
(* Duplicates: the same line k times, the snippet once in each line. *)

\* The longest repeated line and the largest number of repetitions.
MaxLineLen == 5
MaxRows == 3

DupAlphabet == {"a", "b", " "}

\* "- item one"
ItemOne == <<"-", " ", "i", "t", "e", "m", " ", "o", "n", "e">>

\* The number of offsets at which lit occurs in text.
Occurrences(text, lit) ==
    Cardinality({p \in 0..Len(text) : StartsWith(text, p, lit)})

\* The line repeated k times, the rows separated by line breaks.
RECURSIVE Rows(_, _)
Rows(line, k) ==
    IF k = 1 THEN line ELSE line \o <<"\n">> \o Rows(line, k - 1)

DupLines ==
    {l \in TextsUpTo(DupAlphabet, MaxLineLen) : l # <<>> /\ Normalize(l) = l}
        \cup {ItemOne}

InitDup ==
    \E line \in DupLines, k \in 2..MaxRows :
        \E snip \in Pieces(line), occ \in 0..(k - 1) :
            \E ctx \in {line, snip, Split(line, " ")[1]} :
                /\ snip # <<>>
                /\ Trim(snip) = snip
                /\ Occurrences(line, snip) = 1
                /\ Selected(Rows(line, k), snip, ctx, occ)

SpecDup == InitDup /\ [][Locate]_vars

\* The rows of the document and the offset of the snippet in the first one.
RowLine == Split(raw, "\n")[1]

RowSpan(i) ==
    LET at == IndexOfString(RowLine, snippet, 0) + i * (Len(RowLine) + 1)
    IN  [start |-> at, end |-> at + Len(snippet)]

\* C2: with the snippet once in each of k identical lines and a non-empty
\* context, locateSelection with occurrenceIndex i returns the occurrence of
\* line i (counted from 0), not the first.
DuplicateRowsPickIth ==
    pc = "located" =>
        /\ result.found
        /\ result.start = RowSpan(occurrenceIndex).start
        /\ result.end = RowSpan(occurrenceIndex).end

\* C2, the example: three rows "- item one", snippet "item one".
DuplicateRowsExample ==
    (pc = "located" /\ RowLine = ItemOne) =>
        /\ result.found
        /\ result.start = RowSpan(occurrenceIndex).start
        /\ result.end = RowSpan(occurrenceIndex).end
        /\ (occurrenceIndex = 1 /\ snippet = SubSeq(ItemOne, 3, 10)
              => result.start = 13 /\ result.end = 21)

----------------------------------------------------------------------------
(* The stripped search: documents with emphasis markers, no context. *)

\* The longest document with emphasis markers.
MaxMarkupLen == 6

MarkupAlphabet == {"a", " ", "*"}

EmphasisChars == {"*", "_", "~", "="}

InitStripped ==
    \E doc \in TextsUpTo(MarkupAlphabet, MaxMarkupLen) :
        \E snip \in Pieces(BuildStripped(doc).str) :
            /\ Trim(snip) # <<>>
            /\ Selected(doc, snip, <<>>, 0)

SpecStripped == InitStripped /\ [][Locate]_vars

\* The offset of the last character of the returned span that is not an
\* emphasis character (-1 if there is none).
RECURSIVE LastVisibleBefore(_, _)
LastVisibleBefore(text, p) ==
    IF p < 0 THEN -1
    ELSE IF CharAt(text, p) \notin EmphasisChars THEN p
    ELSE LastVisibleBefore(text, p - 1)

\* The exact search found nothing and the stripped search found the snippet
\* in text with an emphasis delimiter right before it and right after it.
FoundWrappedInEmphasis ==
    /\ pc = "located"
    /\ result.found
    /\ findAllCandidates(raw, snippet) = <<>>
    /\ CharAt(raw, result.start - 1) \in EmphasisChars
    /\ CharAt(raw, LastVisibleBefore(raw, result.end - 1) + 1) \in EmphasisChars

\* C3: a snippet found by the stripped search in text wrapped in emphasis
\* delimiters gets the inner span only: the span begins at the first matched
\* character and ends right after the last one, before the closing delimiter,
\* whether or not text follows the closing delimiter.
StrippedSpanIsInnerText ==
    FoundWrappedInEmphasis =>
        /\ CharAt(raw, result.start) \notin EmphasisChars
        /\ result.end = LastVisibleBefore(raw, result.end - 1) + 1

----------------------------------------------------------------------------
(* Ranking: several candidates, a context, any occurrence index. *)

RankAlphabet == {"a", "b", "\n"}

ContextAlphabet == {"a", "b", " "}

\* The longest context of the ranking inputs, and the occurrence indexes
\* tried: -1..MaxOccurrence.
MaxContextLen == 2
MaxOccurrence == 3

InitRank ==
    \E doc \in TextsUpTo(RankAlphabet, MaxLen) :
        \E snip \in Pieces(doc), ctx \in TextsUpTo(ContextAlphabet, MaxContextLen),
           occ \in (-1)..MaxOccurrence :
            /\ Trim(snip) # <<>>
            /\ ctx # <<>>
            /\ Normalize(ctx) = ctx
            /\ Selected(doc, snip, ctx, occ)

SpecRank == InitRank /\ [][Locate]_vars

OutOfRange == occurrenceIndex < 0 \/ occurrenceIndex >= Len(validCandidates)

\* C6: with a context, at least one candidate and an occurrence index out of
\* range of the valid candidates, locateSelection returns the span of the first
\* valid candidate, never null.
OutOfRangeFallsBackToFirstValid ==
    (pc = "located" /\ context # <<>> /\ Len(candidates) > 0 /\ OutOfRange) =>
        /\ Len(validCandidates) > 0
        /\ result.found
        /\ result.start = validCandidates[1].start
        /\ result.end = validCandidates[1].end

\* C6: the fallback taken with a negative index and several valid candidates
OutOfRangeFallsBackToFirstValidWitness ==
    /\ pc = "located"
    /\ context # <<>>
    /\ occurrenceIndex < 0
    /\ Len(validCandidates) >= 2
    /\ Len(candidates) > Len(validCandidates)
    /\ result.found

\* The candidate the result names
ResultIs(cand) == result.found /\ result.start = cand.start /\ result.end = cand.end

BestScore == MaxScore([k \in 1..Len(candidates) |-> candidates[k].score])

\* C7 as stated: the candidate an out-of-range index falls back to has the
\* maximum score of all candidates.
FallbackIsBestMatch ==
    (pc = "located" /\ context # <<>> /\ Len(candidates) > 0 /\ OutOfRange) =>
        \E k \in 1..Len(candidates) :
            /\ ResultIs(candidates[k])
            /\ ScoreEq(candidates[k].score, BestScore)

\* C7 as amended: the candidate an out-of-range index falls back to is the
\* first candidate in source order whose score is at least 0.85 times the
\* maximum score.
FallbackIsFirstNearBest ==
    (pc = "located" /\ context # <<>> /\ Len(candidates) > 0 /\ OutOfRange) =>
        \E k \in 1..Len(candidates) :
            /\ ResultIs(candidates[k])
            /\ PassesThreshold(candidates[k].score, BestScore)
            /\ \A j \in 1..(k - 1) : ~PassesThreshold(candidates[j].score, BestScore)

\* C7: a fallback to a candidate that is within the threshold but not the best
FallbackIsFirstNearBestWitness ==
    /\ pc = "located"
    /\ context # <<>>
    /\ OutOfRange
    /\ Len(validCandidates) >= 2
    /\ ~ScoreEq(validCandidates[1].score, BestScore)
    /\ ResultIs(validCandidates[1])

----------------------------------------------------------------------------
(* The threshold filter on its own: any list of scores. *)

\* The longest list of scores and the largest score.
MaxScores == 4
MaxScoreValue == 10

ScoredList(scores) ==
    [k \in 1..Len(scores) |->
        [start |-> k - 1, end |-> k, text |-> <<"a">>, score |-> <<scores[k], 1>>]]

InitFilter ==
    \E scores \in TextsUpTo(1..MaxScoreValue, MaxScores) :
        /\ scores # <<>>
        /\ candidates = ScoredList(scores)
        /\ raw = <<>>
        /\ snippet = <<>>
        /\ context = <<>>
        /\ occurrenceIndex = 0
        /\ validCandidates = <<>>
        /\ result = Null
        /\ map = <<>>
        /\ strippedRaw = <<>>
        /\ lastIndex = 0
        /\ lastModification = [set |-> FALSE, original |-> <<>>]
        /\ written = 0
        /\ settings = DEFAULT_SETTINGS
        /\ notice = ""
        /\ modal = "none"
        /\ pc = "selected"
        /\ expansion = NoExpansion

\* Step 2 of the ranking: bestScore, threshold, filter.
Filter ==
    /\ pc = "selected"
    /\ validCandidates' = FilterValid(candidates)
    /\ pc' = "filtered"
    /\ UNCHANGED <<raw, snippet, context, occurrenceIndex, candidates, result, map,
                   strippedRaw, lastIndex, lastModification, written,
                   settings, notice, modal>>
    /\ UNCHANGED expansion

SpecFilter == InitFilter /\ [][Filter]_vars

\* The indexes of the candidates whose score is at least 85 hundredths of
\* every score in the list.
NearBestIndexes ==
    {k \in 1..Len(candidates) :
        \A j \in 1..Len(candidates) :
            100 * candidates[k].score[1] * candidates[j].score[2]
                >= 85 * candidates[j].score[1] * candidates[k].score[2]}

\* C8: the valid candidates are exactly the candidates whose score is at least
\* 0.85 times the maximum score, in their original order; for the scores
\* 10, 9, 9, 2 they are the first three.
ValidSetIsThresholdFilter ==
    pc = "filtered" =>
        /\ Len(validCandidates) = Cardinality(NearBestIndexes)
        /\ \A k \in 1..Len(validCandidates) :
               /\ validCandidates[k].start + 1 \in NearBestIndexes
               /\ k > 1 => validCandidates[k - 1].start < validCandidates[k].start
        /\ (candidates = ScoredList(<<10, 9, 9, 2>>)
              => validCandidates = SubSeq(candidates, 1, 3))

\* C8: the filter applied to the scores 10, 9, 9, 2
ValidSetIsThresholdFilterWitness ==
    /\ pc = "filtered"
    /\ candidates = ScoredList(<<10, 9, 9, 2>>)
    /\ Len(validCandidates) = 3

----------------------------------------------------------------------------
(* The Mapper on its own: documents put together from markup tokens and     *)
(* fragments of tokens.                                                     *)

\* The largest number of pieces a document is put together from.
MaxPieces == 2

TokenPieces ==
    { <<"!", "[", "[", "a", "|", "*", "b", "*", "]", "]">>,
      <<"!", "[", "a", "]", "[", "b", "]">>,
      <<"!", "[", "a", "]", "(", "b", ")">>,
      <<"[", "a", "]", "[", "b", "]">>,
      <<"[", "a", "_", "]", "(", "b", " ", "\"", "c", "\"", ")">>,
      <<"[", "[", "a", "|", "b", "]", "]">>,
      <<"[", "^", "1", "]">>,
      <<"$", "$", "a", "$", "$">>,
      <<"$", "a", "$">>,
      <<"%", "%", "a", "%", "%">>,
      <<Backquote, "*", Backquote>>,
      <<"<", "h", "t", "t", "p", ":", "/", "/", "a", ">">>,
      <<"<", "a", "@", "b", ".", "c", "c", ">">>,
      <<"<", "/", "b", ">">>,
      <<"\\", "*">> }

FragmentPieces ==
    { <<"a">>, <<" ">>, <<"*">>, <<"*", "*">>, <<"_">>, <<"=", "=">>, <<"[">>, <<"]">>,
      <<"(">>, <<"!">>, <<"$">>, <<"\\">>, <<"|">>, <<"<">>, <<">">> }

RECURSIVE Concat(_)
Concat(pieces) ==
    IF pieces = <<>> THEN <<>> ELSE Head(pieces) \o Concat(Tail(pieces))

InitMapper ==
    \E pieces \in TextsUpTo(TokenPieces \cup FragmentPieces, MaxPieces) :
        Selected(Concat(pieces), <<>>, <<>>, 0)

\* The first half of findCandidatesStripped: map and strippedRaw built from
\* the document.
Strip ==
    /\ pc = "selected"
    /\ LET built == BuildStripped(raw)
       IN  /\ map' = built.map
           /\ strippedRaw' = built.str
    /\ pc' = "stripped"
    /\ UNCHANGED <<raw, snippet, context, occurrenceIndex, candidates, validCandidates,
                   result, lastIndex, lastModification, written,
                   settings, notice, modal>>
    /\ UNCHANGED expansion

SpecMapper == InitMapper /\ [][Strip]_vars

\* C4: the stripped text and the position map have the same length, and each
\* stripped character is the raw character at the offset the map gives.
MapperRoundTrip ==
    pc = "stripped" =>
        /\ Len(strippedRaw) = Len(map)
        /\ \A k \in 1..Len(map) :
               /\ map[k] >= 0
               /\ map[k] < Len(raw)
               /\ raw[map[k] + 1] = strippedRaw[k]

\* C4: a projection that kept an escaped character and dropped its backslash
MapperRoundTripWitness ==
    /\ pc = "stripped"
    /\ Len(map) >= 2
    /\ Len(map) < Len(raw)
    /\ \E k \in 1..Len(map) : map[k] > 0 /\ raw[map[k]] = "\\" /\ strippedRaw[k] = "*"

\* C5: the position map never points backward
MapIsMonotonic ==
    pc = "stripped" =>
        \A j \in 1..Len(map) : \A k \in 1..Len(map) : j < k => map[j] <= map[k]

\* C5: a map that jumps over the name of an aliased link and over a URL
MapIsMonotonicWitness ==
    /\ pc = "stripped"
    /\ \E k \in 1..(Len(map) - 1) : map[k + 1] > map[k] + 4
    /\ \E k \in 1..Len(map) : strippedRaw[k] = "b" /\ raw[map[k]] = "|"

----------------------------------------------------------------------------
(* locateSelection stepped through its two exec loops, for any snippet,     *)
(* the snippets that are empty after trimming included.                     *)

\* The longest candidate list the stepped loops are followed to.
MaxCandidates == 3

ScanAlphabet == {"a", " ", "*"}

InitScan ==
    \E doc \in TextsUpTo(ScanAlphabet, MaxLen) :
        \E snip \in TextsUpTo(ScanAlphabet, 2) :
            Selected(doc, snip, <<>>, 0)

\* One turn of findAllCandidates' loop: regex.exec(text) from lastIndex, and
\* either the push of the match or, on null, the return of the candidates.
ExecStep ==
    /\ pc \in {"selected", "exact"}
    /\ Len(candidates) < MaxCandidates
    /\ LET m == Exec(Compile(PatternSource(snippet)), raw, lastIndex)
           toStripped == m = <<>> /\ Len(candidates) = 0
       IN  /\ IF m = <<>>
              THEN /\ pc' = IF Len(candidates) = 0 THEN "stripped" ELSE "searched"
                   /\ lastIndex' = 0
                   /\ UNCHANGED candidates
              ELSE /\ pc' = "exact"
                   /\ lastIndex' = m[2]
                   /\ candidates' = Append(candidates,
                          [start |-> m[1], end |-> m[2],
                           text |-> Substring(raw, m[1], m[2])])
           /\ map' = IF toStripped THEN BuildStripped(raw).map ELSE map
           /\ strippedRaw' = IF toStripped THEN BuildStripped(raw).str ELSE strippedRaw
    /\ UNCHANGED <<raw, snippet, context, occurrenceIndex, validCandidates, result,
                   lastModification, written,
                   settings, notice, modal>>
    /\ UNCHANGED expansion

\* One turn of findCandidatesStripped's loop over regex.exec(strippedRaw).
StrippedStep ==
    /\ pc = "stripped"
    /\ Len(candidates) < MaxCandidates
    /\ LET m == Exec(Compile(PatternSource(snippet)), strippedRaw, lastIndex)
       IN  IF m = <<>>
           THEN /\ pc' = "searched"
                /\ lastIndex' = 0
                /\ UNCHANGED candidates
           ELSE LET rawStart == map[m[1] + 1]
                    rawEnd   == IF m[2] < Len(map) THEN map[m[2] + 1] ELSE map[m[2]] + 1
                IN  /\ pc' = "stripped"
                    /\ lastIndex' = m[2]
                    /\ candidates' = Append(candidates,
                           [start |-> rawStart, end |-> rawEnd,
                            text |-> Substring(raw, rawStart, rawEnd)])
    /\ UNCHANGED <<raw, snippet, context, occurrenceIndex, validCandidates, result, map,
                   strippedRaw, lastModification, written,
                   settings, notice, modal>>
    /\ UNCHANGED expansion

\* The rest of locateSelection once both searches have returned (no context).
ReturnFirst ==
    /\ pc = "searched"
    /\ result' = IF Len(candidates) = 0 THEN Null ELSE Span(raw, candidates[1])
    /\ pc' = "located"
    /\ UNCHANGED <<raw, snippet, context, occurrenceIndex, candidates, validCandidates,
                   map, strippedRaw, lastIndex, lastModification, written,
                   settings, notice, modal>>
    /\ UNCHANGED expansion

SpecScan == InitScan /\ [][ExecStep \/ StrippedStep \/ ReturnFirst]_vars

\* C10: for a snippet that is empty after trimming both searches produce no
\* match, and locateSelection returns null.
EmptySnippetFindsNothing ==
    Trim(snippet) = <<>> =>
        /\ Len(candidates) = 0
        /\ pc = "located" => ~result.found

\* C10, what the code does instead: the empty pattern matches the empty string
\* at lastIndex, exec leaves lastIndex where it was, and the loop pushes that
\* match again at every turn.
EmptySnippetNeverLeavesTheLoop ==
    Trim(snippet) = <<>> =>
        /\ pc \in {"selected", "exact"}
        /\ lastIndex = 0
        /\ \A k \in 1..Len(candidates) : candidates[k].start = 0 /\ candidates[k].end = 0

----------------------------------------------------------------------------
(* main.js: applyMarkdownModification *)

MarkOpen  == <<"<", "m", "a", "r", "k">>
MarkClose == <<"<", "/", "m", "a", "r", "k", ">">>

Min(S) == CHOOSE x \in S : \A y \in S : x <= y

\* A match that leaves out the brackets of links.
matchBackWithoutBracket(preceding) ==
    LET n == Len(preceding)
        two == Substring(preceding, n - 2, n)
        one == CharAt(preceding, n - 1)
    IN  IF n >= 2 /\ two \in {<<"*", "*">>, <<"=", "=">>, <<"~", "~">>} THEN 2
        ELSE IF one \in {"*", "_"} THEN 1
        ELSE 0

\* preceding.match(/(<mark[^>]*>|\*\*|==|~~|\*|_|\[\[|\[)$/): the length of the
\* match, 0 when there is none.  match takes the leftmost start from which the
\* pattern reaches the end of preceding: an opening mark tag before the
\* two-character delimiters, these before the one-character ones.
matchBack(preceding) ==
    LET n == Len(preceding)
        tagStarts == {i \in 0..(n - 6) :
                         /\ StartsWith(preceding, i, MarkOpen)
                         /\ SkipTo(preceding, i + 5, {">"}) = n - 1}
        two == Substring(preceding, n - 2, n)
        one == CharAt(preceding, n - 1)
    IN  IF tagStarts # {} THEN n - Min(tagStarts)
        ELSE IF n >= 2 /\ two \in {<<"*", "*">>, <<"=", "=">>, <<"~", "~">>, <<"[", "[">>}
             THEN 2
        ELSE IF one \in {"*", "_", "["} THEN 1
        ELSE 0

\* following.match(/^(<\/mark>|\*\*|==|~~|\*|_|\]\]|\]\([^)]+\))/): the length
\* of the match, 0 when there is none.
matchForward(following) ==
    LET two   == Substring(following, 0, 2)
        one   == CharAt(following, 0)
        close == SkipTo(following, 2, {")"})
    IN  IF StartsWith(following, 0, MarkClose) THEN Len(MarkClose)
        ELSE IF two \in {<<"*", "*">>, <<"=", "=">>, <<"~", "~">>} THEN 2
        ELSE IF one \in {"*", "_"} THEN 1
        ELSE IF two = <<"]", "]">> THEN 2
        ELSE IF two = <<"]", "(">> /\ close > 2 /\ close < Len(following) THEN close + 1
        ELSE 0

\* The iterative expansion: <<expandedStart, expandedEnd>> when a turn of the
\* loop expands neither side.
RECURSIVE ExpandSelection(_, _, _)
ExpandSelection(text, expandedStart, expandedEnd) ==
    LET back    == matchBack(Substring(text, 0, expandedStart))
        forward == matchForward(Substring(text, expandedEnd, Len(text)))
    IN  IF back = 0 /\ forward = 0 THEN <<expandedStart, expandedEnd>>
        ELSE ExpandSelection(text, expandedStart - back, expandedEnd + forward)

\* The end of the match of /\n\s*\n/ that starts at offset i, or -1: the line
\* break at i, then the whitespace up to the last line break of the run.
SeparatorEnd(text, i) ==
    LET runEnd == SkipClass(text, i + 1, Whitespace)
        breaks == {k \in (i + 1)..(runEnd - 1) : CharAt(text, k) = "\n"}
    IN  IF CharAt(text, i) = "\n" /\ breaks # {}
        THEN (CHOOSE k \in breaks : \A j \in breaks : j <= k) + 1
        ELSE -1

\* selectedText.split(/\n\s*\n/)
RECURSIVE SplitParagraphs(_)
SplitParagraphs(text) ==
    LET starts == {i \in 0..(Len(text) - 1) : SeparatorEnd(text, i) # -1}
    IN  IF starts = {} THEN <<text>>
        ELSE LET i == Min(starts)
             IN  <<Substring(text, 0, i)>>
                 \o SplitParagraphs(Substring(text, SeparatorEnd(text, i), Len(text)))

\* parts.join(sep)
RECURSIVE Join(_, _)
Join(parts, sep) ==
    IF parts = <<>> THEN <<>>
    ELSE IF Len(parts) = 1 THEN parts[1]
    ELSE parts[1] \o sep \o Join(Tail(parts), sep)

\* s.startsWith("#") ? s.substring(1) : s
StripHash(s) == IF s # <<>> /\ s[1] = "#" THEN Tail(s) ELSE s

\* The tag text put in front of every wrapped line ("" for none).
FullTag(mode, payload, autoTag) ==
    LET prefix == Trim(settings.defaultTagPrefix)
        own == IF mode = "tag" /\ payload # <<>>
               THEN IF prefix # <<>>
                    THEN <<"#">> \o StripHash(prefix) \o <<" ", "#">> \o StripHash(payload)
                    ELSE <<"#">> \o StripHash(payload)
               ELSE IF mode \in {"highlight", "color"} /\ prefix # <<>>
                    THEN <<"#">> \o StripHash(prefix)
               ELSE <<>>
        cleanAutoTag == IF autoTag # <<>> /\ autoTag[1] = "#" THEN autoTag
                        ELSE <<"#">> \o autoTag
    IN  IF autoTag = <<>> THEN own
        ELSE IF own # <<>> THEN own \o <<" ">> \o cleanAutoTag
        ELSE cleanAutoTag

\* line.replace(/<mark[^>]*>/g, "")
RECURSIVE RemoveMarkOpen(_)
RemoveMarkOpen(line) ==
    LET i     == IndexOfString(line, MarkOpen, 0)
        close == SkipTo(line, i + 5, {">"})
    IN  IF i = -1 THEN line
        ELSE IF close >= Len(line)
             THEN Substring(line, 0, i + 1)
                  \o RemoveMarkOpen(Substring(line, i + 1, Len(line)))
        ELSE Substring(line, 0, i) \o RemoveMarkOpen(Substring(line, close + 1, Len(line)))

\* line.split(lit).join(""), which is also line.replace(/lit/g, "") for a
\* literal: every occurrence found left to right is dropped.
RECURSIVE RemoveAll(_, _)
RemoveAll(line, lit) ==
    LET i == IndexOfString(line, lit, 0)
    IN  IF i = -1 THEN line
        ELSE Substring(line, 0, i)
             \o RemoveAll(Substring(line, i + Len(lit), Len(line)), lit)

\* A cleaning that drops every "=", not only the pairs.
CleanLineEverySign(line) ==
    RemoveAll(RemoveAll(RemoveMarkOpen(line), MarkClose), <<"=">>)

\* cleanLine: the line without mark tags and, in every mode the plugin
\* calls, without "==".
CleanLine(line) ==
    RemoveAll(RemoveAll(RemoveMarkOpen(line), MarkClose), <<"=", "=">>)

\* The length of the match of prefixRegex at the start of content, 0 for none:
\* /^((?:#{1,6}\s+)|(?:[-*+]\s+)|(?:\d+\.\s+)|(?:>\s+)|(?:-\s\[[ x]\]\s+))/
PrefixLength(content) ==
    LET hashes   == SkipClass(content, 0, {"#"})
        digits   == SkipClass(content, 0, Digits)
        Spaces(p) == SkipClass(content, p, Whitespace)
    IN  IF hashes \in 1..6 /\ Spaces(hashes) > hashes THEN Spaces(hashes)
        ELSE IF CharAt(content, 0) \in {"-", "*", "+"} /\ Spaces(1) > 1 THEN Spaces(1)
        ELSE IF digits >= 1 /\ CharAt(content, digits) = "." /\ Spaces(digits + 1) > digits + 1
             THEN Spaces(digits + 1)
        ELSE IF CharAt(content, 0) = ">" /\ Spaces(1) > 1 THEN Spaces(1)
        ELSE IF /\ CharAt(content, 0) = "-"
                /\ IsSpace(CharAt(content, 1))
                /\ CharAt(content, 2) = "["
                /\ CharAt(content, 3) \in {" ", "x"}
                /\ CharAt(content, 4) = "]"
                /\ Spaces(5) > 5
             THEN Spaces(5)
        ELSE 0

\* <mark style="background: ${color}; color: black;">
MarkTag(color) ==
    MarkOpen
    \o <<" ", "s", "t", "y", "l", "e", "=", "\"", "b", "a", "c", "k", "g", "r", "o", "u", "n", "d", ":", " ">>
    \o color
    \o <<";", " ", "c", "o", "l", "o", "r", ":", " ", "b", "l", "a", "c", "k", ";", "\"", ">">>

\* The wrapped content of one line.
WrapContent(content, mode, payload) ==
    IF mode \in {"highlight", "tag"}
    THEN IF settings.enableColorHighlighting /\ settings.highlightColor # <<>>
         THEN MarkTag(settings.highlightColor) \o content \o MarkClose
         ELSE <<"=", "=">> \o content \o <<"=", "=">>
    ELSE IF mode = "color" THEN MarkTag(payload) \o content \o MarkClose
    ELSE content

\* A rewriting that puts the tag in front of the whole line.
ProcessLineTagFirst(line, mode, payload, fullTag) ==
    LET cleanLine == CleanLine(line)
        tagStr    == IF fullTag # <<>> THEN fullTag \o <<" ">> ELSE <<>>
    IN  IF mode = "remove" THEN cleanLine
        ELSE tagStr \o Substring(cleanLine, 0, SkipClass(cleanLine, 0, Whitespace))
             \o WrapContent(Substring(cleanLine, SkipClass(cleanLine, 0, Whitespace),
                                      Len(cleanLine)), mode, payload)

\* What lines.map makes of one line.
ProcessLine(line, mode, payload, fullTag) ==
    LET cleanLine == CleanLine(line)
        indentLen == SkipClass(cleanLine, 0, Whitespace)
        indent    == Substring(cleanLine, 0, indentLen)
        contentAfterIndent == Substring(cleanLine, indentLen, Len(cleanLine))
        prefixLen == PrefixLength(contentAfterIndent)
        prefix    == Substring(contentAfterIndent, 0, prefixLen)
        content   == Substring(contentAfterIndent, prefixLen, Len(contentAfterIndent))
        tagStr    == IF fullTag # <<>> THEN fullTag \o <<" ">> ELSE <<>>
    IN  IF mode = "remove" THEN cleanLine
        ELSE indent \o prefix \o tagStr \o WrapContent(content, mode, payload)

\* What paragraphs.map makes of one paragraph.
ProcessParagraph(paragraph, mode, payload, fullTag) ==
    IF Trim(paragraph) = <<>> THEN paragraph
    ELSE LET lines == Split(paragraph, "\n")
         IN  Join([k \in 1..Len(lines) |-> ProcessLine(lines[k], mode, payload, fullTag)],
                  <<"\n">>)

\* A modification that takes the whole document for the span.
applyMarkdownModificationToAll(text, start, end, mode, payload, autoTag) ==
    LET paragraphs == SplitParagraphs(text)
        fullTag    == FullTag(mode, payload, autoTag)
    IN  Join([k \in 1..Len(paragraphs) |->
                  ProcessParagraph(paragraphs[k], mode, payload, fullTag)],
             <<"\n", "\n">>)

\* The content applyMarkdownModification hands to vault.modify.
applyMarkdownModification(text, start, end, mode, payload, autoTag) ==
    LET expanded   == ExpandSelection(text, start, end)
        paragraphs == SplitParagraphs(Substring(text, expanded[1], expanded[2]))
        fullTag    == FullTag(mode, payload, autoTag)
        replaceBlock ==
            Join([k \in 1..Len(paragraphs) |->
                      ProcessParagraph(paragraphs[k], mode, payload, fullTag)],
                 <<"\n", "\n">>)
    IN  Substring(text, 0, expanded[1]) \o replaceBlock
        \o Substring(text, expanded[2], Len(text))

----------------------------------------------------------------------------
(* main.js: applyAnnotation *)

DigitChars == <<"0", "1", "2", "3", "4", "5", "6", "7", "8", "9">>

\* parseInt of a run of decimal digits
RECURSIVE ParseInt(_)
ParseInt(ds) ==
    IF ds = <<>> THEN 0
    ELSE ParseInt(SubSeq(ds, 1, Len(ds) - 1)) * 10
         + (CHOOSE v \in 0..9 : DigitChars[v + 1] = ds[Len(ds)])

\* `${n}` for n >= 0
RECURSIVE ToDigits(_)
ToDigits(n) ==
    IF n < 10 THEN <<DigitChars[n + 1]>>
    ELSE ToDigits(n \div 10) \o <<DigitChars[(n % 10) + 1]>>

\* A search that stops at the first footnote reference.
MaxFootnoteFirstOnly(text, from) ==
    LET i      == IndexOfString(text, <<"[", "^">>, from)
        digits == SkipClass(text, i + 2, Digits)
    IN  IF i # -1 /\ digits > i + 2 /\ CharAt(text, digits) = "]"
        THEN ParseInt(Substring(text, i + 2, digits))
        ELSE 0

\* The largest n of the matches of /\[\^(\d+)\]/g from offset from on, 0 for none.
RECURSIVE MaxFootnote(_, _)
MaxFootnote(text, from) ==
    LET i      == IndexOfString(text, <<"[", "^">>, from)
        digits == SkipClass(text, i + 2, Digits)
    IN  IF i = -1 THEN 0
        ELSE IF digits > i + 2 /\ CharAt(text, digits) = "]"
             THEN LET n    == ParseInt(Substring(text, i + 2, digits))
                      rest == MaxFootnote(text, digits + 1)
                  IN  IF n > rest THEN n ELSE rest
        ELSE MaxFootnote(text, i + 1)

\* The content applyAnnotation hands to vault.modify.
applyAnnotation(text, end, comment) ==
    LET footnoteNum == ToDigits(MaxFootnote(text, 0) + 1)
        footnoteRef == <<"[", "^">> \o footnoteNum \o <<"]">>
        footnoteDef == <<"\n", "\n", "[", "^">> \o footnoteNum \o <<"]", ":", " ">> \o comment
    IN  TrimEnd(Substring(text, 0, end) \o footnoteRef \o Substring(text, end, Len(text)))
        \o footnoteDef \o <<"\n">>

----------------------------------------------------------------------------
(* main.js: removeAllHighlights; utils/dom.js: getHighlightsFromContent *)

\* Whether text[a..b) holds no line break, which is what "." asks for
\* without the s flag.
DotMatches(text, a, b, dotAll) ==
    dotAll \/ \A k \in a..(b - 1) : CharAt(text, k) # "\n"

\* The match of /==(.*?)==/ that starts at offset i: <<start of the group, end
\* of the group>>, or <<-1, -1>>.  The lazy group stops at the first "==".
MatchMarkdownHighlight(text, i, dotAll) ==
    LET close == IndexOfString(text, <<"=", "=">>, i + 2)
    IN  IF StartsWith(text, i, <<"=", "=">>) /\ close # -1
           /\ DotMatches(text, i + 2, close, dotAll)
        THEN <<i + 2, close>>
        ELSE <<-1, -1>>

\* The match of /<mark[^>]*>(.*?)<\/mark>/ that starts at offset i.
MatchHtmlHighlight(text, i, dotAll) ==
    LET open  == SkipTo(text, i + Len(MarkOpen), {">"})
        close == IndexOfString(text, MarkClose, open + 1)
    IN  IF StartsWith(text, i, MarkOpen) /\ open < Len(text) /\ close # -1
           /\ DotMatches(text, open + 1, close, dotAll)
        THEN <<open + 1, close>>
        ELSE <<-1, -1>>

\* raw.replace(/==(.*?)==/g, "$1")
RECURSIVE ReplaceMarkdownHighlights(_)
ReplaceMarkdownHighlights(text) ==
    LET starts == {i \in 0..(Len(text) - 1) :
                      MatchMarkdownHighlight(text, i, FALSE)[1] # -1}
    IN  IF starts = {} THEN text
        ELSE LET i == Min(starts)
                 m == MatchMarkdownHighlight(text, i, FALSE)
             IN  Substring(text, 0, i) \o Substring(text, m[1], m[2])
                 \o ReplaceMarkdownHighlights(Substring(text, m[2] + 2, Len(text)))

\* raw.replace(/<mark[^>]*>(.*?)<\/mark>/g, "$1")
RECURSIVE ReplaceHtmlHighlights(_)
ReplaceHtmlHighlights(text) ==
    LET starts == {i \in 0..(Len(text) - 1) :
                      MatchHtmlHighlight(text, i, FALSE)[1] # -1}
    IN  IF starts = {} THEN text
        ELSE LET i == Min(starts)
                 m == MatchHtmlHighlight(text, i, FALSE)
             IN  Substring(text, 0, i) \o Substring(text, m[1], m[2])
                 \o ReplaceHtmlHighlights(Substring(text, m[2] + Len(MarkClose), Len(text)))

\* The exec loop of getHighlightsFromContent for one pattern (s flag set).
RECURSIVE HighlightsFrom(_, _, _)
HighlightsFrom(text, from, type) ==
    LET Match(i) == IF type = "markdown" THEN MatchMarkdownHighlight(text, i, TRUE)
                    ELSE MatchHtmlHighlight(text, i, TRUE)
        starts == {i \in from..(Len(text) - 1) : Match(i)[1] # -1}
    IN  IF starts = {} THEN <<>>
        ELSE LET i == Min(starts)
                 m == Match(i)
             IN  <<[text |-> Trim(Substring(text, m[1], m[2])), type |-> type,
                    position |-> i]>>
                 \o HighlightsFrom(text,
                                   m[2] + (IF type = "markdown" THEN 2 ELSE Len(MarkClose)),
                                   type)

\* highlights.sort((a, b) => a.position - b.position) of the two lists, each
\* in ascending position.
RECURSIVE MergeByPosition(_, _)
MergeByPosition(a, b) ==
    IF a = <<>> THEN b
    ELSE IF b = <<>> THEN a
    ELSE IF a[1].position <= b[1].position THEN <<a[1]>> \o MergeByPosition(Tail(a), b)
    ELSE <<b[1]>> \o MergeByPosition(a, Tail(b))

getHighlightsFromContent(text) ==
    MergeByPosition(HighlightsFrom(text, 0, "markdown"), HighlightsFrom(text, 0, "html"))

----------------------------------------------------------------------------
(* main.js: the operations on the selection of the reading view.  One       *)
(* document is open; a modal blocks the other operations until it closes.   *)

\* No operation starts once this many vault.modify calls have been made.
MaxWrites == 1

\* settings.colorPalette: a colour as shipped (no tag) and one given a tag.
colorPalette ==
    << [color |-> <<"#", "F", "F", "E", "E", "5", "8">>, tag |-> <<>>],
       [color |-> <<"#", "6", "4", "B", "5", "F", "6">>, tag |-> <<"q">>] >>

\* await this.saveUndoState(view.file)
saveUndoState == lastModification' = [set |-> TRUE, original |-> raw]

\* const result = await this.logic.locateSelection(view.file, view, snippet,
\*                                                 contextText, occurrenceIndex)
AwaitLocate ==
    \E r \in {locateSelection(raw, snippet, context, occurrenceIndex)} :
        /\ candidates' = r.candidates
        /\ validCandidates' = r.validCandidates
        /\ result' = r.result

\* await this.app.vault.modify(view.file, newContent)
Modify(newContent) ==
    /\ raw' = newContent
    /\ written' = written + 1

\* sel?.removeAllRanges()
removeAllRanges ==
    /\ snippet' = <<>>
    /\ context' = <<>>
    /\ occurrenceIndex' = 0

\* An operation that returns before it has read the document.
ReturnEarly ==
    UNCHANGED <<raw, written, lastModification, candidates, validCandidates, result,
                snippet, context, occurrenceIndex>>

\* if (!result) { new Notice(text); return; }
NotLocated(text) ==
    /\ notice' = text
    /\ UNCHANGED <<raw, written, snippet, context, occurrenceIndex>>

highlightSelection ==
    /\ modal = "none"
    /\ written < MaxWrites
    /\ pc' = "highlightSelection"
    /\ IF Trim(snippet) = <<>>
       THEN notice' = "No text selected." /\ ReturnEarly
       ELSE /\ saveUndoState
            /\ AwaitLocate
            /\ IF ~result'.found
               THEN NotLocated("Could not locate selection in file.")
               ELSE LET color == settings.enableColorHighlighting
                                 /\ settings.highlightColor # <<>>
                        mode    == IF color THEN "color" ELSE "highlight"
                        payload == IF color THEN settings.highlightColor ELSE <<>>
                    IN  /\ Modify(applyMarkdownModification(result'.raw, result'.start,
                                      result'.end, mode, payload, <<>>))
                        /\ removeAllRanges
                        /\ notice' = "Highlighted!"
    /\ UNCHANGED <<map, strippedRaw, lastIndex, settings, modal>>
    /\ UNCHANGED expansion

applyColorHighlight(color, autoTag) ==
    /\ pc' = "applyColorHighlight"
    /\ IF Trim(snippet) = <<>>
       THEN UNCHANGED notice /\ ReturnEarly
       ELSE /\ saveUndoState
            /\ AwaitLocate
            /\ IF ~result'.found
               THEN NotLocated("Could not locate selection.")
               ELSE /\ Modify(applyMarkdownModification(result'.raw, result'.start,
                                  result'.end, "color", color, autoTag))
                    /\ removeAllRanges
                    /\ notice' = "Highlighted!"
    /\ UNCHANGED <<map, strippedRaw, lastIndex, settings, modal>>
    /\ UNCHANGED expansion

applyColorByIndex(index) ==
    /\ modal = "none"
    /\ written < MaxWrites
    /\ IF index < 0 \/ index >= Len(colorPalette)
       THEN /\ pc' = "applyColorByIndex"
            /\ UNCHANGED <<raw, snippet, context, occurrenceIndex, candidates,
                           validCandidates, result, map, strippedRaw, lastIndex,
                           lastModification, written, settings, notice, modal>>
       ELSE applyColorHighlight(colorPalette[index + 1].color, colorPalette[index + 1].tag)
    /\ UNCHANGED expansion

removeHighlightSelection ==
    /\ modal = "none"
    /\ written < MaxWrites
    /\ pc' = "removeHighlightSelection"
    /\ IF Trim(snippet) = <<>>
       THEN notice' = "Select highlighted text to remove." /\ ReturnEarly
       ELSE /\ saveUndoState
            /\ AwaitLocate
            /\ IF ~result'.found
               THEN NotLocated("Could not locate selection in file.")
               ELSE /\ Modify(applyMarkdownModification(result'.raw, result'.start,
                                  result'.end, "remove", <<>>, <<>>))
                    /\ removeAllRanges
                    /\ notice' = "Highlighting removed."
    /\ UNCHANGED <<map, strippedRaw, lastIndex, settings, modal>>
    /\ UNCHANGED expansion

tagSelection ==
    /\ modal = "none"
    /\ written < MaxWrites
    /\ pc' = "tagSelection"
    /\ IF Trim(snippet) = <<>>
       THEN notice' = "No text selected." /\ ReturnEarly /\ UNCHANGED modal
       ELSE /\ saveUndoState
            /\ AwaitLocate
            /\ IF ~result'.found
               THEN NotLocated("Could not locate selection in file.") /\ UNCHANGED modal
               ELSE /\ modal' = "tag"
                    /\ UNCHANGED <<raw, written, snippet, context, occurrenceIndex, notice>>
    /\ UNCHANGED <<map, strippedRaw, lastIndex, settings>>
    /\ UNCHANGED expansion

\* A callback that reads the document again and rewrites the span in the
\* text it finds.
submitTagsOnCurrentText(tag) ==
    /\ modal = "tag"
    /\ Modify(applyMarkdownModification(raw, result.start, result.end, "tag", tag, <<>>))
    /\ removeAllRanges
    /\ modal' = "none"
    /\ pc' = "submitTags"
    /\ UNCHANGED <<candidates, validCandidates, result, map, strippedRaw, lastIndex,
                   lastModification, settings, notice>>
    /\ UNCHANGED expansion

\* TagSuggestModal.submit: onChoose(the selected tags, "#"-prefixed and joined
\* by spaces), which is the callback tagSelection passed, then close.
submitTags(tag) ==
    /\ modal = "tag"
    /\ Modify(applyMarkdownModification(result.raw, result.start, result.end,
                                        "tag", tag, <<>>))
    /\ removeAllRanges
    /\ modal' = "none"
    /\ pc' = "submitTags"
    /\ UNCHANGED <<candidates, validCandidates, result, map, strippedRaw, lastIndex,
                   lastModification, settings, notice>>
    /\ UNCHANGED expansion

annotateSelection ==
    /\ modal = "none"
    /\ written < MaxWrites
    /\ pc' = "annotateSelection"
    /\ IF Trim(snippet) = <<>>
       THEN notice' = "No text selected." /\ ReturnEarly /\ UNCHANGED modal
       ELSE /\ AwaitLocate
            /\ UNCHANGED lastModification
            /\ IF ~result'.found
               THEN NotLocated("Could not locate selection in file.") /\ UNCHANGED modal
               ELSE /\ modal' = "annotation"
                    /\ UNCHANGED <<raw, written, snippet, context, occurrenceIndex, notice>>
    /\ UNCHANGED <<map, strippedRaw, lastIndex, settings>>
    /\ UNCHANGED expansion

\* AnnotationModal.submit: onSubmit(comment.trim()) when the comment is not
\* blank, which is the callback annotateSelection passed, then close.
submitAnnotation(comment) ==
    /\ modal = "annotation"
    /\ modal' = "none"
    /\ pc' = "submitAnnotation"
    /\ IF Trim(comment) = <<>>
       THEN UNCHANGED <<raw, written, lastModification, notice, snippet, context,
                        occurrenceIndex>>
       ELSE /\ saveUndoState
            /\ Modify(applyAnnotation(result.raw, result.end, Trim(comment)))
            /\ removeAllRanges
            /\ notice' = "Annotation added!"
    /\ UNCHANGED <<candidates, validCandidates, result, map, strippedRaw, lastIndex,
                   settings>>
    /\ UNCHANGED expansion

\* Modal.close without a submit (Escape, the Cancel button, a click outside).
closeModal ==
    /\ modal # "none"
    /\ modal' = "none"
    /\ pc' = "closeModal"
    /\ UNCHANGED <<raw, snippet, context, occurrenceIndex, candidates, validCandidates,
                   result, map, strippedRaw, lastIndex, lastModification, written,
                   settings, notice>>
    /\ UNCHANGED expansion

\* An undo that writes the document back as it is.
undoWithoutRestore ==
    /\ modal = "none"
    /\ pc' = "undoLastHighlight"
    /\ IF ~lastModification.set
       THEN /\ notice' = "Nothing to undo."
            /\ UNCHANGED <<raw, written, lastModification>>
       ELSE /\ Modify(raw)
            /\ notice' = "Undone last highlight."
            /\ lastModification' = [set |-> FALSE, original |-> <<>>]
    /\ UNCHANGED <<snippet, context, occurrenceIndex, candidates, validCandidates, result,
                   map, strippedRaw, lastIndex, settings, modal>>
    /\ UNCHANGED expansion

undoLastHighlight ==
    /\ modal = "none"
    /\ pc' = "undoLastHighlight"
    /\ IF ~lastModification.set
       THEN /\ notice' = "Nothing to undo."
            /\ UNCHANGED <<raw, written, lastModification>>
       ELSE /\ Modify(lastModification.original)
            /\ notice' = "Undone last highlight."
            /\ lastModification' = [set |-> FALSE, original |-> <<>>]
    /\ UNCHANGED <<snippet, context, occurrenceIndex, candidates, validCandidates, result,
                   map, strippedRaw, lastIndex, settings, modal>>
    /\ UNCHANGED expansion

removeAllHighlights ==
    /\ modal = "none"
    /\ written < MaxWrites
    /\ pc' = "removeAllHighlights"
    /\ saveUndoState
    /\ Modify(ReplaceHtmlHighlights(ReplaceMarkdownHighlights(raw)))
    /\ notice' = "All highlights removed."
    /\ UNCHANGED <<snippet, context, occurrenceIndex, candidates, validCandidates, result,
                   map, strippedRaw, lastIndex, settings, modal>>
    /\ UNCHANGED expansion

\* The selectionchange event: the reader selects text of the rendered
\* document (or text the stored document no longer holds).
selectionchange(snip, ctx, occ) ==
    /\ modal = "none"
    /\ snippet' = snip
    /\ context' = ctx
    /\ occurrenceIndex' = occ
    /\ pc' = "selectionchange"
    /\ UNCHANGED <<raw, candidates, validCandidates, result, map, strippedRaw, lastIndex,
                   lastModification, written, settings, notice, modal>>
    /\ UNCHANGED expansion

----------------------------------------------------------------------------
(* The plugin at work on a small document *)

\* "a b" on two lines, a list item with emphasis, a highlight.
Documents ==
    { <<"a", " ", "b", "\n", "a", " ", "b">>,
      <<"-", " ", "a", " ", "*", "b", "*">>,
      <<"=", "=", "a", "=", "=", " ", "b">> }

\* What the reader can have selected: the text, the innerText of its block
\* and the block's occurrence index.
Selections ==
    { [snippet |-> <<" ">>, context |-> <<>>, occurrenceIndex |-> 0],
      [snippet |-> <<"a">>, context |-> <<>>, occurrenceIndex |-> 0],
      [snippet |-> <<"a", " ", "b">>, context |-> <<"a", " ", "b">>, occurrenceIndex |-> 1],
      [snippet |-> <<"z">>, context |-> <<"z">>, occurrenceIndex |-> 0] }

SettingsChoices ==
    { DEFAULT_SETTINGS,
      [DEFAULT_SETTINGS EXCEPT !.defaultTagPrefix = <<"k">>],
      [DEFAULT_SETTINGS EXCEPT !.enableColorHighlighting = TRUE,
                               !.highlightColor = <<"r", "e", "d">>] }

Tags == { <<>>, <<"#", "t">> }

Comments == { <<" ">>, <<"c">> }

Init ==
    /\ raw \in Documents
    /\ snippet = <<>>
    /\ context = <<>>
    /\ occurrenceIndex = 0
    /\ candidates = <<>>
    /\ validCandidates = <<>>
    /\ result = Null
    /\ map = <<>>
    /\ strippedRaw = <<>>
    /\ lastIndex = 0
    /\ lastModification = [set |-> FALSE, original |-> <<>>]
    /\ written = 0
    /\ settings \in SettingsChoices
    /\ notice = ""
    /\ modal = "none"
    /\ pc = "onload"
    /\ expansion = NoExpansion

Next ==
    \/ \E sel \in Selections :
           selectionchange(sel.snippet, sel.context, sel.occurrenceIndex)
    \/ highlightSelection
    \/ tagSelection
    \/ \E tag \in Tags : submitTags(tag)
    \/ annotateSelection
    \/ \E comment \in Comments : submitAnnotation(comment)
    \/ closeModal
    \/ removeHighlightSelection
    \/ removeAllHighlights
    \/ \E index \in 0..Len(colorPalette) : applyColorByIndex(index)
    \/ undoLastHighlight

Spec == Init /\ [][Next]_vars

\* The operations that locate the selection before they write.
LocatingOperations ==
    {"highlightSelection", "tagSelection", "annotateSelection",
     "removeHighlightSelection", "applyColorHighlight"}

CouldNotLocate == {"Could not locate selection in file.", "Could not locate selection."}

\* C9: when neither the exact search nor the stripped search finds the
\* selected text, locateSelection returns null and the operation that called it
\* (highlight, tag, annotate, remove, colour) leaves the document as it is:
\* no vault.modify, no modal.
NotFoundWritesNothing ==
    [][(/\ pc' \in LocatingOperations
        /\ Trim(snippet) # <<>>
        /\ SearchCandidates(raw, snippet) = <<>>)
       => (/\ ~result'.found
           /\ notice' \in CouldNotLocate
           /\ raw' = raw
           /\ written' = written
           /\ modal' = "none")]_vars

\* An operation has just failed to locate a selection the document does not hold.
NotFoundWritesNothingWitness ==
    /\ pc \in LocatingOperations
    /\ Trim(snippet) # <<>>
    /\ SearchCandidates(raw, snippet) = <<>>
    /\ ~result.found
    /\ notice \in CouldNotLocate
    /\ written = 0

----------------------------------------------------------------------------
(* Remove mode on a selection inside a highlight, then the same search again. *)

MaxInnerLen == 3

\* <mark> carries no attribute here: /<mark[^>]*>/ takes it like a styled one.
HighlightWrappers ==
    { [open |-> <<"=", "=">>, close |-> <<"=", "=">>],
      [open |-> MarkOpen \o <<">">>, close |-> MarkClose] }

\* What the line holds before and after the highlight.
TextBefore == { <<>>, <<"-", " ">>, <<"=", "=", "c", "=", "=", " ">> }
TextAfter  == { <<>>, <<" ", "c">>, <<" ", "=", "=", "c", "=", "=">>, <<"\n", "c">> }

\* The documents: one highlight in a line, and the parts of its text.
InitRemove ==
    \E before \in TextBefore, after \in TextAfter, w \in HighlightWrappers :
        \E inner \in TextsUpTo({"a", "b", " "}, MaxInnerLen) :
            \E a \in 0..Len(inner), b \in 0..Len(inner) :
                LET snip == Substring(inner, a, b)
                    from == Len(before) + Len(w.open)
                IN  /\ inner # <<>>
                    /\ Trim(inner) = inner
                    /\ Trim(snip) # <<>>
                    /\ Trim(snip) = snip
                    /\ Selected(before \o w.open \o inner \o w.close \o after,
                                snip, <<>>, 0)
                    /\ \E r \in {locateSelection(raw, snippet, <<>>, 0).result} :
                           r.found /\ r.start = from + a /\ r.end = from + b

\* await this.applyMarkdownModification(view.file, result.raw, result.start,
\*                                      result.end, "remove")
applyRemove ==
    /\ pc = "located"
    /\ result.found
    /\ Modify(applyMarkdownModification(result.raw, result.start, result.end,
                                        "remove", <<>>, <<>>))
    /\ pc' = "removed"
    /\ UNCHANGED <<snippet, context, occurrenceIndex, candidates, validCandidates,
                   result, map, strippedRaw, lastIndex, lastModification, settings,
                   notice, modal>>
    /\ UNCHANGED expansion

\* The same snippet searched for in the rewritten document.
LocateAgain ==
    /\ pc = "removed"
    /\ AwaitLocate
    /\ pc' = "relocated"
    /\ UNCHANGED <<raw, snippet, context, occurrenceIndex, map, strippedRaw,
                   lastIndex, lastModification, written, settings, notice, modal>>
    /\ UNCHANGED expansion

SpecRemove == InitRemove /\ [][Locate \/ applyRemove \/ LocateAgain]_vars

\* Whether text holds a highlight marker.
HasMarker(text) ==
    \/ IndexOfString(text, <<"=", "=">>, 0) # -1
    \/ IndexOfString(text, MarkOpen, 0) # -1
    \/ IndexOfString(text, MarkClose, 0) # -1

\* C11: after remove mode on the span located for a snippet inside a
\* highlight, the same snippet is located again in the new document and the
\* source line around the found span holds no highlight marker ("==", "<mark",
\* "</mark>"), also when the selection was a part of the highlighted text or
\* the line holds another highlight.
RemoveThenRelocateIsClean ==
    pc = "relocated" =>
        /\ result.found
        /\ ~HasMarker(SourceBlock(raw, result))

----------------------------------------------------------------------------
(* Remove mode on one line, applied twice. *)

MaxLinePieces == 4

LinePieces ==
    { <<"a">>, <<" ">>, <<"=">>, <<"*">>, MarkOpen, <<">">>, MarkClose }

InitLine ==
    \E pieces \in TextsUpTo(LinePieces, MaxLinePieces) :
        Selected(Concat(pieces), <<>>, <<>>, 0)

\* applyMarkdownModification(file, raw, 0, raw.length, "remove"): the whole
\* line is the span.
removeLine ==
    /\ written < 2
    /\ Modify(applyMarkdownModification(raw, 0, Len(raw), "remove", <<>>, <<>>))
    /\ pc' = "cleaned"
    /\ UNCHANGED <<snippet, context, occurrenceIndex, candidates, validCandidates,
                   result, map, strippedRaw, lastIndex, lastModification, settings,
                   notice, modal>>
    /\ UNCHANGED expansion

SpecLine == InitLine /\ [][removeLine]_vars

\* Whether line holds "==", an opening mark tag or a closing mark tag.
IsHighlighted(line) ==
    \/ IndexOfString(line, <<"=", "=">>, 0) # -1
    \/ IndexOfString(line, MarkClose, 0) # -1
    \/ \E i \in 0..Len(line) :
           /\ StartsWith(line, i, MarkOpen)
           /\ SkipTo(line, i + Len(MarkOpen), {">"}) < Len(line)

\* C12: remove mode applied to a line that holds no highlight marker (no "=="
\* and no mark tag) leaves the line as it is, the first time and the second.
RemoveKeepsPlainLine ==
    [][~IsHighlighted(raw) => raw' = raw]_vars

\* C12: remove mode has run twice on a line that holds "=" and "<mark"
\* but no highlight marker.
RemoveKeepsPlainLineWitness ==
    /\ pc = "cleaned"
    /\ written = 2
    /\ ~IsHighlighted(raw)
    /\ IndexOf(raw, "=", 0) # -1
    /\ IndexOfString(raw, MarkOpen, 0) # -1

----------------------------------------------------------------------------
(* What the operations write *)

\* The operations that write through applyMarkdownModification.
ModifyingOperations ==
    {"highlightSelection", "applyColorHighlight", "removeHighlightSelection", "submitTags"}

\* The text of the located span.
LocatedText == Substring(result.raw, result.start, result.end)

\* C13: applyMarkdownModification changes the selected occurrence only: the
\* written document is raw[0..expandedStart) + replacement + raw[expandedEnd..),
\* so the text before the expanded span and the text after it, with every
\* other occurrence of the snippet, are as they were.
OnlyExpandedSpanChanges ==
    [][(pc' \in ModifyingOperations /\ written' = written + 1)
       => \E e \in {ExpandSelection(raw, result'.start, result'.end)} :
              \E tail \in {Len(raw) - e[2]} :
                  /\ Len(raw') >= e[1] + tail
                  /\ Substring(raw', 0, e[1]) = Substring(raw, 0, e[1])
                  /\ Substring(raw', Len(raw') - tail, Len(raw'))
                         = Substring(raw, e[2], Len(raw))]_vars

\* C13: an operation has rewritten one of two occurrences of the located text.
OnlyExpandedSpanChangesWitness ==
    /\ pc \in ModifyingOperations
    /\ written = 1
    /\ raw # lastModification.original
    /\ Occurrences(lastModification.original, LocatedText) = 2
    /\ Occurrences(raw, LocatedText) = 2

----------------------------------------------------------------------------
(* Tag mode: where the tag goes in a line. *)

MaxTagPieces == 3

TagPieces ==
    { <<"a">>, <<" ">>, <<"\n">>, <<"-", " ", "a">>, <<"#", " ", "a">>, <<">", " ">>,
      <<"1", ".", " ", "a">>, <<"=", "=">> }

\* What TagSuggestModal.submit passes for one chosen tag.
TagChoices == { <<"#", "t">>, <<"u">> }

\* tagSelection has located the selection and opened the tag modal.
InitTag ==
    \E pieces \in TextsUpTo(TagPieces, MaxTagPieces) :
        \E snip \in {s \in Pieces(Concat(pieces)) : Trim(s) # <<>>} :
            \E r \in {locateSelection(Concat(pieces), snip, <<>>, 0)} :
                /\ r.result.found
                /\ raw = Concat(pieces)
                /\ snippet = snip
                /\ context = <<>>
                /\ occurrenceIndex = 0
                /\ candidates = r.candidates
                /\ validCandidates = r.validCandidates
                /\ result = r.result
                /\ map = <<>>
                /\ strippedRaw = <<>>
                /\ lastIndex = 0
                /\ lastModification = [set |-> TRUE, original |-> raw]
                /\ written = 0
                /\ settings \in SettingsChoices
                /\ notice = ""
                /\ modal = "tag"
                /\ pc = "tagSelection"
                /\ expansion = NoExpansion

SpecTag == InitTag /\ [][\E tag \in TagChoices : submitTags(tag)]_vars

\* The lengths of the structural prefixes line starts with: heading hashes,
\* a list bullet, an ordered-list number or a blockquote marker, and the
\* whitespace after it.
StructuralPrefixes(line) ==
    {p \in 2..Len(line) :
        \E m \in 1..(p - 1) :
            /\ \A k \in (m + 1)..p : IsSpace(line[k])
            /\ p = Len(line) \/ ~IsSpace(line[p + 1])
            /\ \/ m <= 6 /\ \A k \in 1..m : line[k] = "#"
               \/ m = 1 /\ line[1] \in {"-", "*", "+", ">"}
               \/ m >= 2 /\ line[m] = "." /\ \A k \in 1..(m - 1) : line[k] \in Digits}

\* Whether line is indent + structural prefix (if any) + tag + one space +
\* wrapped content, with no structural prefix left inside the wrap.
HasTagForm(line, tag) ==
    \E rest \in {TrimStart(line)} :
        \E p \in {0} \cup StructuralPrefixes(rest) :
            \E a \in (p + Len(tag) + 1)..Len(rest), b \in {Len(rest) - 2, Len(rest) - Len(MarkClose)} :
                \E content \in {Substring(rest, a, b)} :
                    /\ rest = Substring(rest, 0, p) \o tag \o <<" ">>
                                  \o WrapContent(content, "tag", <<>>)
                    /\ p = 0 => StructuralPrefixes(content) = {}

\* The text the last write put in the place of the expanded span.
ReplaceBlock(before, after, span) ==
    LET e == ExpandSelection(before, span.start, span.end)
    IN  Substring(after, e[1], Len(after) - (Len(before) - e[2]))

\* C14: in tag mode with a tag that is not empty, every non-blank line of the
\* rewritten span is indent + structural prefix (if any) + tag + one space +
\* wrapped content: the tag stands right before the opening highlight marker
\* and after the list, heading or blockquote prefix.
TagGoesAfterPrefix ==
    pc = "submitTags" =>
        \E tag \in TagChoices :
            \A line \in Range(Split(ReplaceBlock(lastModification.original, raw, result),
                                    "\n")) :
                Trim(line) # <<>> => HasTagForm(line, FullTag("tag", tag, <<>>))

\* C14: a list item and a heading have been tagged in one write.
TagGoesAfterPrefixWitness ==
    /\ pc = "submitTags"
    /\ lastModification.original = <<"-", " ", "a", "\n", "#", " ", "a">>
    /\ result.start = 2
    /\ result.end = 7
    /\ raw \in { <<"-", " ">> \o t \o <<"=", "=", "a", "=", "=", "\n", "#", " ">> \o t
                     \o <<"=", "=", "a", "=", "=">> :
                 t \in { <<"#", "t", " ">>, <<"#", "k", " ", "#", "t", " ">> } }

----------------------------------------------------------------------------
(* Remove on text the plugin has tagged and highlighted. *)

MaxTaggedLen == 3

LinePrefixes == { <<>>, <<"-", " ">>, <<"#", " ">>, <<">", " ">> }

\* The tag the reader chose for the highlight.
ChosenTag == <<"#", "t">>

\* The tag modal has written tag and highlight, and the reader has selected
\* the highlighted text again.
InitTagged ==
    \E prefix \in LinePrefixes, text \in TextsUpTo({"a", "b", " "}, MaxTaggedLen) :
        \E snip \in {s \in Pieces(text) : s # <<>> /\ Trim(s) = s} :
            \E r \in {locateSelection(prefix \o text, snip, <<>>, 0).result} :
                /\ Trim(text) = text
                /\ r.found
                /\ settings = DEFAULT_SETTINGS
                /\ raw = applyMarkdownModification(r.raw, r.start, r.end, "tag",
                                                   ChosenTag, <<>>)
                /\ snippet = snip
                /\ context = <<>>
                /\ occurrenceIndex = 0
                /\ candidates = <<>>
                /\ validCandidates = <<>>
                /\ result = Null
                /\ map = <<>>
                /\ strippedRaw = <<>>
                /\ lastIndex = 0
                /\ lastModification = [set |-> FALSE, original |-> <<>>]
                /\ written = 0
                /\ notice = ""
                /\ modal = "none"
                /\ pc = "selectionchange"
                /\ expansion = NoExpansion

SpecTagged == InitTagged /\ [][removeHighlightSelection]_vars

\* C15: Remove strips the highlighting and the tag that goes with it: after
\* removeHighlightSelection on the highlighted text of a line like
\* "- #tag ==content==" the line holds neither the highlight markers nor the
\* tag the plugin put before them.
RemoveStripsTag ==
    (pc = "removeHighlightSelection" /\ written = 1) =>
        /\ ~HasMarker(raw)
        /\ IndexOfString(raw, ChosenTag, 0) = -1

\* What Remove does with the line: the markers around the whole highlighted
\* text go, the tag stays where it was.
RemoveLeavesTag ==
    (pc = "removeHighlightSelection" /\ written = 1) =>
        /\ raw = RemoveAll(lastModification.original, <<"=", "=">>)
        /\ IndexOfString(raw, ChosenTag \o <<" ">>, 0) # -1

----------------------------------------------------------------------------
(* Remove all highlights, then what the navigator finds. *)

MaxHighlightPieces == 4

HighlightPieces ==
    { <<"a">>, <<"=">>, <<"=", "=">>, <<"\n">>, MarkOpen \o <<">">>, MarkClose }

InitRemoveAll ==
    \E pieces \in TextsUpTo(HighlightPieces, MaxHighlightPieces) :
        Selected(Concat(pieces), <<>>, <<>>, 0)

SpecRemoveAll == InitRemoveAll /\ [][removeAllHighlights]_vars

\* C18: after removeAllHighlights no highlight is left in the document:
\* getHighlightsFromContent finds none in the new content, whatever the
\* document was, highlights over several lines included.
RemoveAllLeavesNoHighlight ==
    pc = "removeAllHighlights" => getHighlightsFromContent(raw) = <<>>

\* What holds: no highlight that lies within one line is left when the
\* document held no mark tag.
RemoveAllLeavesNoHighlightInLine ==
    (/\ pc = "removeAllHighlights"
     /\ IndexOfString(lastModification.original, MarkOpen, 0) = -1)
        => \A i \in 0..Len(raw) : MatchMarkdownHighlight(raw, i, FALSE)[1] = -1

----------------------------------------------------------------------------
(* Undo *)

\* The operations that write to the document.
WritingOperations ==
    {"highlightSelection", "applyColorHighlight", "removeHighlightSelection",
     "submitTags", "submitAnnotation", "removeAllHighlights"}

----------------------------------------------------------------------------
(* The annotation modal writes a footnote. *)

MaxNotePieces == 3

NotePieces ==
    { <<"a">>, <<"b">>, <<" ">>, <<"\n">>, <<"[", "^", "1", "]">>, <<"[", "^", "9", "]">> }

\* What the reader typed: Enter submits, Shift+Enter breaks the line.
TypedComments == { <<"c">>, <<" ", "c", " ">>, <<"c", "\n", "d">>, <<" ">> }

\* annotateSelection has located the selection and opened the modal.
InitAnnotate ==
    \E pieces \in TextsUpTo(NotePieces, MaxNotePieces) :
        \E snip \in {s \in Pieces(Concat(pieces)) : Trim(s) # <<>>} :
            \E r \in {locateSelection(Concat(pieces), snip, <<>>, 0)} :
                /\ r.result.found
                /\ raw = Concat(pieces)
                /\ snippet = snip
                /\ context = <<>>
                /\ occurrenceIndex = 0
                /\ candidates = r.candidates
                /\ validCandidates = r.validCandidates
                /\ result = r.result
                /\ map = <<>>
                /\ strippedRaw = <<>>
                /\ lastIndex = 0
                /\ lastModification = [set |-> FALSE, original |-> <<>>]
                /\ written = 0
                /\ settings = DEFAULT_SETTINGS
                /\ notice = ""
                /\ modal = "annotation"
                /\ pc = "annotateSelection"
                /\ expansion = NoExpansion

SpecAnnotate ==
    InitAnnotate /\ [][\E comment \in TypedComments : submitAnnotation(comment)]_vars

\* The comments the modal passes on.
PassedComments == {Trim(c) : c \in TypedComments} \ {<<>>}

\* Whether text is old with "[^n]" put in at offset end and "[^n]: comment"
\* appended after a blank line, trailing whitespace trimmed, one line break
\* at the end.
IsAnnotated(text, old, end, n, comment) ==
    text = Substring(old, 0, end) \o <<"[", "^">> \o n \o <<"]">>
               \o TrimEnd(Substring(old, end, Len(old)))
               \o <<"\n", "\n", "[", "^">> \o n \o <<"]", ":", " ">> \o comment \o <<"\n">>

\* Whether the last line of text is "[^n]: comment", a blank line before it
\* and one line break after it.
EndsWithDefinitionLine(text, n, comment) ==
    LET lines == Split(text, "\n")
    IN  /\ Len(lines) >= 3
        /\ lines[Len(lines)] = <<>>
        /\ lines[Len(lines) - 1] = <<"[", "^">> \o n \o <<"]", ":", " ">> \o comment
        /\ lines[Len(lines) - 2] = <<>>

\* C17: applyAnnotation with a comment that is not empty puts the reference
\* "[^n]" right after the end offset of the located span and appends the
\* definition "[^n]: comment" as the last line of the document (trailing
\* whitespace trimmed, a blank line before it, one line break after it); all
\* other text stays in order.
AnnotationIsLastLine ==
    (pc = "submitAnnotation" /\ written = 1) =>
        \E comment \in PassedComments, d \in 1..Len(DigitChars) :
            /\ IsAnnotated(raw, lastModification.original, result.end,
                           ToDigits(d), comment)
            /\ EndsWithDefinitionLine(raw, ToDigits(d), comment)

\* What holds for every comment: the reference goes in at the end offset and
\* reference, colon and comment are the end of the document.
AnnotationIsAppended ==
    (pc = "submitAnnotation" /\ written = 1) =>
        \E comment \in PassedComments, d \in 1..Len(DigitChars) :
            IsAnnotated(raw, lastModification.original, result.end, ToDigits(d), comment)

----------------------------------------------------------------------------
(* The stripped search is the fallback of the exact search. *)

\* C19: the stripped search runs only when the exact search finds nothing:
\* when the whitespace-tolerant pattern matches somewhere in the raw text,
\* every candidate, and so the returned span, is an exact match in the raw
\* text, also when the stripped projection holds a further occurrence.
ExactMatchesSkipStrippedSearch ==
    (pc = "located" /\ findAllCandidates(raw, snippet) # <<>>) =>
        /\ candidates = findAllCandidates(raw, snippet)
        /\ \A k \in 1..Len(candidates) :
               Normalize(Substring(raw, candidates[k].start, candidates[k].end))
                   = Normalize(snippet)
        /\ result.found
        /\ \E k \in 1..Len(candidates) :
               result.start = candidates[k].start /\ result.end = candidates[k].end

\* C19: the exact search found the snippet and the stripped projection holds
\* an occurrence the raw text does not.
ExactMatchesSkipStrippedSearchWitness ==
    /\ pc = "located"
    /\ findAllCandidates(raw, snippet) # <<>>
    /\ Len(findCandidatesStripped(raw, snippet)) > Len(findAllCandidates(raw, snippet))
    /\ candidates = findAllCandidates(raw, snippet)

----------------------------------------------------------------------------
(* A line equal to the context outranks every other line. *)

\* The candidates whose normalised enclosing line is the normalised context.
ExactLineCandidates ==
    {k \in 1..Len(candidates) : SourceBlock(raw, candidates[k]) = Normalize(context)}

\* C20: calculateSimilarity(a, a) is 1000 and unequal strings score at most
\* 1; so when the normalised enclosing line of some candidate equals the
\* normalised context, the valid candidates are exactly the candidates whose
\* normalised enclosing line equals the context.
ExactLineDominates ==
    (pc = "located" /\ context # <<>>) =>
        /\ \A a \in {raw, snippet, context} : calculateSimilarity(a, a) = <<1000, 1>>
        /\ \A a \in {raw, snippet, context}, b \in {raw, snippet, context} :
               a # b => ScoreGeq(<<1, 1>>, calculateSimilarity(a, b))
        /\ \A k \in 1..Len(candidates) :
               IF k \in ExactLineCandidates
               THEN ScoreEq(candidates[k].score, <<1000, 1>>)
               ELSE ScoreGeq(<<1, 1>>, candidates[k].score)
        /\ ExactLineCandidates # {} =>
               /\ Len(validCandidates) = Cardinality(ExactLineCandidates)
               /\ \A k \in ExactLineCandidates :
                      \E j \in 1..Len(validCandidates) :
                          /\ validCandidates[j].start = candidates[k].start
                          /\ validCandidates[j].end = candidates[k].end

\* C20: of several candidates one lies in a line equal to the context and one
\* in another line, and only the first is valid.
ExactLineDominatesWitness ==
    /\ pc = "located"
    /\ context # <<>>
    /\ ExactLineCandidates # {}
    /\ Len(candidates) > Cardinality(ExactLineCandidates)
    /\ Len(validCandidates) = Cardinality(ExactLineCandidates)

----------------------------------------------------------------------------
(* The expansion loop of applyMarkdownModification, one iteration a step. *)

MaxExpandPieces == 3

ExpandPieces ==
    { <<"a">>, <<"*">>, <<"*", "*">>, <<"=", "=">>, <<"~", "~">>, <<"_">>, <<"[">>,
      <<"[", "[">>, <<"]", "]">>, <<"]", "(", "u", ")">>, MarkOpen \o <<">">>, MarkClose }

\* applyMarkdownModification is entered with a span of the document.
InitExpand ==
    \E pieces \in TextsUpTo(ExpandPieces, MaxExpandPieces) :
        \E start \in 0..Len(Concat(pieces)), end \in 0..Len(Concat(pieces)) :
            /\ start < end
            /\ raw = Concat(pieces)
            /\ snippet = <<>>
            /\ context = <<>>
            /\ occurrenceIndex = 0
            /\ candidates = <<>>
            /\ validCandidates = <<>>
            /\ result = [found |-> TRUE, raw |-> raw, start |-> start, end |-> end]
            /\ map = <<>>
            /\ strippedRaw = <<>>
            /\ lastIndex = 0
            /\ lastModification = [set |-> FALSE, original |-> <<>>]
            /\ written = 0
            /\ settings = DEFAULT_SETTINGS
            /\ notice = ""
            /\ modal = "none"
            /\ pc = "expansion"
            /\ expansion = [expandedStart |-> start, expandedEnd |-> end, expanded |-> TRUE]

\* One turn of while (expanded) { ... }
expandStep ==
    /\ pc = "expansion"
    /\ expansion.expanded
    /\ \E back \in {matchBack(Substring(result.raw, 0, expansion.expandedStart))},
          forward \in {matchForward(Substring(result.raw, expansion.expandedEnd,
                                              Len(result.raw)))} :
           expansion' = [expandedStart |-> expansion.expandedStart - back,
                         expandedEnd   |-> expansion.expandedEnd + forward,
                         expanded      |-> back > 0 \/ forward > 0]
    /\ UNCHANGED <<raw, snippet, context, occurrenceIndex, candidates, validCandidates,
                   result, map, strippedRaw, lastIndex, lastModification, written,
                   settings, notice, modal, pc>>

\* The loop condition fails; the modification goes on to split the span.
expandExit ==
    /\ pc = "expansion"
    /\ ~expansion.expanded
    /\ pc' = "split"
    /\ UNCHANGED <<raw, snippet, context, occurrenceIndex, candidates, validCandidates,
                   result, map, strippedRaw, lastIndex, lastModification, written,
                   settings, notice, modal, expansion>>

NextExpand == expandStep \/ expandExit

SpecExpand == InitExpand /\ [][NextExpand]_vars /\ WF_vars(NextExpand)

\* Whether text ends with an opening delimiter the expansion knows.
EndsWithOpening(text) ==
    \/ \E d \in { <<"*", "*">>, <<"=", "=">>, <<"~", "~">>, <<"*">>, <<"_">>,
                  <<"[", "[">>, <<"[">> } :
           Len(text) >= Len(d) /\ Substring(text, Len(text) - Len(d), Len(text)) = d
    \/ \E i \in 0..Len(text) :
           /\ StartsWith(text, i, MarkOpen)
           /\ text[Len(text)] = ">"
           /\ \A k \in (i + Len(MarkOpen) + 1)..(Len(text) - 1) : text[k] # ">"

\* Whether text begins with a closing delimiter the expansion knows.
BeginsWithClosing(text) ==
    \/ \E d \in { MarkClose, <<"*", "*">>, <<"=", "=">>, <<"~", "~">>, <<"*">>, <<"_">>,
                  <<"]", "]">> } :
           StartsWith(text, 0, d)
    \/ /\ StartsWith(text, 0, <<"]", "(">>)
       /\ \E k \in 4..Len(text) :
              text[k] = ")" /\ \A j \in 3..(k - 1) : text[j] # ")"

\* C21: the expansion loop ends for every text and every span: a turn either
\* grows the span or ends the loop, 0 <= expandedStart <= start and
\* end <= expandedEnd <= len(raw) all along, and at the exit the text before
\* expandedStart does not end with an opening delimiter and the text at
\* expandedEnd does not begin with a closing delimiter.
ExpansionTerminates ==
    /\ <>(pc = "split")
    /\ [](/\ 0 <= expansion.expandedStart
          /\ expansion.expandedStart <= result.start
          /\ result.end <= expansion.expandedEnd
          /\ expansion.expandedEnd <= Len(raw))
    /\ [][pc = "expansion" /\ pc' = "expansion"
              => \/ /\ expansion'.expanded
                    /\ expansion'.expandedEnd - expansion'.expandedStart
                           > expansion.expandedEnd - expansion.expandedStart
                 \/ /\ ~expansion'.expanded
                    /\ expansion'.expandedStart = expansion.expandedStart
                    /\ expansion'.expandedEnd = expansion.expandedEnd]_vars
    /\ [](pc = "split" =>
              /\ ~EndsWithOpening(Substring(raw, 0, expansion.expandedStart))
              /\ ~BeginsWithClosing(Substring(raw, expansion.expandedEnd, Len(raw))))

\* C21: the loop has ended after it grew the span in more than one turn.
ExpansionTerminatesWitness ==
    /\ pc = "split"
    /\ expansion.expandedStart + 3 <= result.start
    /\ expansion.expandedEnd > result.end

\* The loop ends with the span applyMarkdownModification rewrites.
ExpansionIsExpandSelection ==
    pc = "split" =>
        <<expansion.expandedStart, expansion.expandedEnd>>
            = ExpandSelection(raw, result.start, result.end)

----------------------------------------------------------------------------
(* Highlight on text that already stands inside a pair of "==". *)

MaxInsidePieces == 5

InsidePieces == { <<"a">>, <<" ">>, <<"=", "=">>, <<"*", "*">> }

InitInside ==
    \E pieces \in TextsUpTo(InsidePieces, MaxInsidePieces) :
        \E snip \in {s \in Pieces(Concat(pieces)) : Trim(s) # <<>>} :
            Selected(Concat(pieces), snip, <<>>, 0)

SpecInside == InitInside /\ [][highlightSelection]_vars

\* Whether the span is the text right inside a pair of "==" of text.
InsidePair(text, span) ==
    /\ span.start >= 2
    /\ Substring(text, span.start - 2, span.start) = <<"=", "=">>
    /\ Substring(text, span.end, span.end + 2) = <<"=", "=">>
    /\ IndexOfString(Substring(text, span.start, span.end), <<"=", "=">>, 0) = -1

\* C22: when the located span is the text right inside a pair of "==",
\* highlightSelection (colour off, no tag prefix) takes both markers into the
\* span and writes it back with one pair: the document is what it was.
HighlightInsidePairIsIdentity ==
    (/\ pc = "highlightSelection"
     /\ written = 1
     /\ InsidePair(lastModification.original, result))
        => raw = lastModification.original

\* What holds: the document is what it was when the pair itself has no
\* delimiter next to it and the text inside starts with no space.
HighlightInsideLonePairIsIdentity ==
    (/\ pc = "highlightSelection"
     /\ written = 1
     /\ InsidePair(lastModification.original, result)
     /\ ExpandSelection(lastModification.original, result.start, result.end)
            = <<result.start - 2, result.end + 2>>
     /\ ~IsSpace(lastModification.original[result.start + 1]))
        => raw = lastModification.original

----------------------------------------------------------------------------
(* Highlight, colour and tag on lines that start with a structural prefix. *)

MaxPrefixLines == 2

PrefixChoices ==
    { <<>>, <<"#", " ">>, <<"-", " ">>, <<"1", ".", " ">>, <<">", " ">>,
      <<"-", " ", "[", " ", "]", " ">>, <<"-", " ", "[", "x", "]", " ">> }

PrefixLines == { indent \o prefix \o <<"a">> : indent \in {<<>>, <<" ">>}, prefix \in PrefixChoices }

InitPrefix ==
    \E lines \in TextsUpTo(PrefixLines, MaxPrefixLines) :
        \E snip \in {s \in Pieces(Join(lines, <<"\n">>)) : Trim(s) # <<>>} :
            /\ lines # <<>>
            /\ Selected(Join(lines, <<"\n">>), snip, <<>>, 0)

NextPrefix ==
    \/ highlightSelection
    \/ \E index \in 0..(Len(colorPalette) - 1) : applyColorByIndex(index)
    \/ tagSelection
    \/ \E tag \in TagChoices : submitTags(tag)

SpecPrefix == InitPrefix /\ [][NextPrefix]_vars

\* The length of the structural prefix line starts with, the checkbox of a
\* task item included; 0 when there is none.
WholePrefix(line) ==
    IF /\ Len(line) >= 6
       /\ line[1] = "-" /\ IsSpace(line[2]) /\ line[3] = "["
       /\ line[4] \in {" ", "x"} /\ line[5] = "]" /\ IsSpace(line[6])
    THEN CHOOSE p \in 6..Len(line) :
             /\ \A k \in 6..p : IsSpace(line[k])
             /\ p = Len(line) \/ ~IsSpace(line[p + 1])
    ELSE IF StructuralPrefixes(line) = {} THEN 0
    ELSE CHOOSE p \in StructuralPrefixes(line) : TRUE

\* Whether outLine is inLine with its indentation and whole structural prefix
\* in front, then maybe a tag, then the wrap markup around the content after
\* the prefix and nothing else.
KeepsPrefix(inLine, outLine) ==
    LET rest    == TrimStart(inLine)
        front   == Len(inLine) - Len(rest) + WholePrefix(rest)
        content == Substring(inLine, front, Len(inLine))
    IN  WholePrefix(rest) > 0 =>
            /\ Substring(outLine, 0, front) = Substring(inLine, 0, front)
            /\ \E close \in {<<"=", "=">>, MarkClose} :
                   \E at \in {Len(outLine) - Len(close) - Len(content)} :
                       /\ at >= front + 2
                       /\ Substring(outLine, at, Len(outLine)) = content \o close
                       /\ \/ Substring(outLine, at - 2, at) = <<"=", "=">>
                          \/ outLine[at] = ">"

\* C23: in highlight, colour and tag modes every line of the span that starts,
\* after its indentation, with a structural prefix (heading hashes, list
\* bullet, ordered-list number, blockquote marker, checkbox) keeps the whole
\* prefix in front of tag and wrap markup, and only the content after the
\* prefix is wrapped: the box of a task item stays outside the highlight.
PrefixStaysOutsideWrap ==
    [][written' = written + 1
       => \E e \in {ExpandSelection(result'.raw, result'.start, result'.end)} :
              \E before \in {Split(Substring(result'.raw, e[1], e[2]), "\n")},
                 after \in {Split(ReplaceBlock(result'.raw, raw', result'), "\n")} :
                  /\ Len(after) = Len(before)
                  /\ \A i \in 1..Len(before) : KeepsPrefix(before[i], after[i])]_vars

\* What holds: the same with the prefixes the code finds, where the bullet of
\* a task item is the prefix and the box is content.
PrefixWithoutBoxStaysOutsideWrap ==
    [][written' = written + 1
       => \E e \in {ExpandSelection(result'.raw, result'.start, result'.end)} :
              \E before \in {Split(Substring(result'.raw, e[1], e[2]), "\n")},
                 after \in {Split(ReplaceBlock(result'.raw, raw', result'), "\n")} :
                  /\ Len(after) = Len(before)
                  /\ \A i \in 1..Len(before) :
                         \/ WholePrefix(TrimStart(before[i])) >= 6
                         \/ KeepsPrefix(before[i], after[i])]_vars

----------------------------------------------------------------------------
(* Remove mode on one line that holds markers and other delimiters. *)

MaxStripPieces == 4

StripPieces ==
    { <<"a">>, <<"*">>, <<"~", "~">>, <<"=">>, <<"=", "=">>, MarkOpen \o <<">">>, MarkClose }

\* The selection is a run of the pieces of the line.
InitStrip ==
    \E pieces \in TextsUpTo(StripPieces, MaxStripPieces) :
        \E i \in 1..Len(pieces), j \in 1..Len(pieces) :
            /\ i <= j
            /\ Selected(Concat(pieces), Concat(SubSeq(pieces, i, j)), <<>>, 0)

SpecStrip == InitStrip /\ [][removeHighlightSelection]_vars

\* The length of the highlight marker line holds at offset p ("==", an
\* opening mark tag up to its ">", or "</mark>"); 0 when there is none.
MarkerAt(line, p) ==
    IF StartsWith(line, p, <<"=", "=">>) THEN 2
    ELSE IF StartsWith(line, p, MarkClose) THEN Len(MarkClose)
    ELSE IF StartsWith(line, p, MarkOpen) /\ SkipTo(line, p + Len(MarkOpen), {">"}) < Len(line)
         THEN SkipTo(line, p + Len(MarkOpen), {">"}) + 1 - p
    ELSE 0

\* line from offset p on with every highlight marker it holds left out and
\* every other character kept.
RECURSIVE WithoutMarkers(_, _)
WithoutMarkers(line, p) ==
    IF p >= Len(line) THEN <<>>
    ELSE IF MarkerAt(line, p) > 0 THEN WithoutMarkers(line, p + MarkerAt(line, p))
    ELSE <<line[p + 1]>> \o WithoutMarkers(line, p + 1)

\* C24: in remove mode the text written for a line is the line of the
\* expanded span with every "==", "<mark ...>" and "</mark>" deleted and every
\* other character kept in its order; nothing is added.
RemoveDeletesOnlyMarkers ==
    [][written' = written + 1
       => \E e \in {ExpandSelection(result'.raw, result'.start, result'.end)} :
              ReplaceBlock(result'.raw, raw', result')
                  = WithoutMarkers(Substring(result'.raw, e[1], e[2]), 0)]_vars

\* What holds: the same when the line without its markers holds no marker,
\* that is, when no deletion brings the halves of a new marker together.
RemoveDeletesOnlyMarkersApart ==
    [][written' = written + 1
       => \E e \in {ExpandSelection(result'.raw, result'.start, result'.end)} :
              \/ IsHighlighted(WithoutMarkers(Substring(result'.raw, e[1], e[2]), 0))
              \/ ReplaceBlock(result'.raw, raw', result')
                     = WithoutMarkers(Substring(result'.raw, e[1], e[2]), 0)]_vars

----------------------------------------------------------------------------
(* The token loop of findCandidatesStripped, one token a step, on links.  *)

MaxLinkPieces == 3

\* Links of every kind the Mapper knows: a is label text, u a URL, r a
\* reference id, n a note name.
LinkPieces ==
    { <<"[", "a", "]", "(", "u", ")">>,
      <<"[", "*", "a", "*", "]", "(", "u", " ", "\"", "u", "\"", ")">>,
      <<"[", "a", "]", "[", "r", "]">>,
      <<"!", "[", "a", "]", "(", "u", ")">>,
      <<"!", "[", "a", "]", "[", "r", "]">>,
      <<"[", "[", "n", "]", "]">>,
      <<"[", "[", "n", "|", "a", "]", "]">>,
      <<"!", "[", "[", "n", "]", "]">>,
      <<"!", "[", "[", "n", "|", "_", "a", "_", "]", "]">> }

LinkFragments == { <<"x">>, <<"*">>, <<"[">>, <<"]">>, <<"!">> }

InitLinks ==
    \E pieces \in TextsUpTo(LinkPieces \cup LinkFragments, MaxLinkPieces) :
        Selected(Concat(pieces), <<>>, <<>>, 0)

\* One turn of while ((match = tokenRegex.exec(text)) !== null), or, when exec
\* returns null, the loop over the remaining text.
tokenStep ==
    /\ pc \in {"selected", "tokens"}
    /\ \E m \in {tokenRegex(raw, lastIndex)} :
           \E acc \in {IF m.group = 0
                       THEN addRawText([map |-> map, str |-> strippedRaw], raw,
                                       lastIndex, Len(raw))
                       ELSE ProcessToken(addRawText([map |-> map, str |-> strippedRaw],
                                                    raw, lastIndex, m.index), raw, m)} :
               /\ map' = acc.map
               /\ strippedRaw' = acc.str
               /\ lastIndex' = IF m.group = 0 THEN lastIndex ELSE m.end
               /\ pc' = IF m.group = 0 THEN "stripped" ELSE "tokens"
    /\ UNCHANGED <<raw, snippet, context, occurrenceIndex, candidates, validCandidates,
                   result, lastModification, written, settings, notice, modal>>
    /\ UNCHANGED expansion

SpecLinks == InitLinks /\ [][tokenStep]_vars

\* The raw offsets of the visible label of the link token m of text: the
\* text between the opening bracket(s) and the first closing bracket, and in
\* a double-bracket link or embed with a pipe the text after the first pipe.
LabelOffsets(text, m) ==
    LET open  == m.index + (CASE m.group = 1 -> 3
                              [] m.group \in {2, 3, 6} -> 2
                              [] OTHER -> 1)
        close == IF m.group \in {1, 6} THEN m.end - 2 ELSE SkipTo(text, open, {"]"})
        pipe  == SkipTo(text, open, {"|"})
    IN  IF m.group \in {1, 6} /\ pipe < close THEN (pipe + 1)..(close - 1)
        ELSE open..(close - 1)

\* C25: of every link-like token the Mapper recognises (inline link,
\* reference link, inline or reference image, double-bracket link, embed) the
\* map holds raw offsets of the visible label only (link text, alt text, the
\* alias when there is a pipe and the name otherwise): no offset of a
\* delimiting bracket, of a parenthesis, the pipe, the URL, the reference id
\* or the name before the pipe.
MapHoldsLabelOnly ==
    [][\A m \in {tokenRegex(raw, lastIndex)} :
           m.group \in 1..6 =>
               /\ lastIndex' = m.end
               /\ \A k \in (Len(map) + 1)..Len(map') :
                      \/ map'[k] \in lastIndex..(m.index - 1)
                      \/ /\ map'[k] \in LabelOffsets(raw, m)
                         /\ raw[map'[k] + 1] \notin {"(", ")", "|", "u", "r", "\""}
                         /\ IndexOf(Substring(raw, m.index, m.end), "|", 0) # -1
                                => raw[map'[k] + 1] # "n"]_vars

\* C25: the map of "[[n|a]][a](u)" is done: it holds the alias of the first
\* link and the text of the second and nothing else.
MapHoldsLabelOnlyWitness ==
    /\ pc = "stripped"
    /\ raw = <<"[", "[", "n", "|", "a", "]", "]", "[", "a", "]", "(", "u", ")">>
    /\ map = <<4, 8>>
    /\ strippedRaw = <<"a", "a">>

----------------------------------------------------------------------------
(* A write while the tag or annotation modal is open. *)

MaxLostLen == 3

\* FloatingManager.setupMobileGestures: 600 ms after a touchstart anywhere in
\* the document, with a selection that is not blank, highlightSelection(view)
\* is called, whether a modal is open or not.
longPress ==
    /\ Trim(snippet) # <<>>
    /\ written < MaxWrites
    /\ pc' = "longPress"
    /\ saveUndoState
    /\ AwaitLocate
    /\ IF ~result'.found
       THEN NotLocated("Could not locate selection in file.")
       ELSE /\ Modify(applyMarkdownModification(result'.raw, result'.start, result'.end,
                                                "highlight", <<>>, <<>>))
            /\ removeAllRanges
            /\ notice' = "Highlighted!"
    /\ UNCHANGED <<map, strippedRaw, lastIndex, settings, modal>>
    /\ UNCHANGED expansion

InitLost ==
    \E doc \in TextsUpTo({"a", "b", " "}, MaxLostLen) :
        \E snip \in {s \in Pieces(doc) : Trim(s) # <<>>} :
            Selected(doc, snip, <<>>, 0)

NextLost ==
    \/ tagSelection
    \/ annotateSelection
    \/ longPress
    \/ \E tag \in TagChoices : submitTags(tag)
    \/ \E comment \in Comments : submitAnnotation(comment)
    \/ closeModal

SpecLost == InitLost /\ [][NextLost]_vars

\* C26: the write of a modal callback is a full document computed from the
\* text locateSelection read when the modal was opened, whatever the document
\* holds by then: a write made in between is overwritten.
WriteUsesTextReadAtLocate ==
    [][(modal # "none" /\ modal' = "none" /\ written' = written + 1)
       => \/ /\ modal = "tag"
             /\ \E tag \in TagChoices :
                    raw' = applyMarkdownModification(result.raw, result.start, result.end,
                                                     "tag", tag, <<>>)
          \/ /\ modal = "annotation"
             /\ \E comment \in Comments :
                    raw' = applyAnnotation(result.raw, result.end, Trim(comment))]_vars

\* C26: a lost update: a highlight was written while the annotation modal was
\* open, the annotation was written after it, and the document holds the
\* footnote and no highlight.
WriteUsesTextReadAtLocateWitness ==
    /\ pc = "submitAnnotation"
    /\ written = 2
    /\ IndexOfString(lastModification.original, <<"=", "=">>, 0) # -1
    /\ IndexOfString(raw, <<"=", "=">>, 0) = -1
    /\ IndexOfString(raw, <<"[", "^", "1", "]">>, 0) # -1

----------------------------------------------------------------------------
(* Attempts that write nothing, after a highlight has been written. *)

MaxUndoLen == 2

\* highlightSelection has written a highlight and left the content it found
\* as the undo state; written counts the writes that follow.
InitUndo ==
    \E doc \in TextsUpTo({"a", "b", " "}, MaxUndoLen) :
        \E snip \in {s \in Pieces(doc) : Trim(s) # <<>>} :
            \E r \in {locateSelection(doc, snip, <<>>, 0)} :
                /\ r.result.found
                /\ settings = DEFAULT_SETTINGS
                /\ raw = applyMarkdownModification(r.result.raw, r.result.start,
                                                   r.result.end, "highlight", <<>>, <<>>)
                /\ snippet = <<>>
                /\ context = <<>>
                /\ occurrenceIndex = 0
                /\ candidates = r.candidates
                /\ validCandidates = r.validCandidates
                /\ result = r.result
                /\ map = <<>>
                /\ strippedRaw = <<>>
                /\ lastIndex = 0
                /\ lastModification = [set |-> TRUE, original |-> doc]
                /\ written = 0
                /\ notice = "Highlighted!"
                /\ modal = "none"
                /\ pc = "highlightSelection"
                /\ expansion = NoExpansion

NextUndo ==
    \/ \E s \in Selections : selectionchange(s.snippet, s.context, s.occurrenceIndex)
    \/ highlightSelection
    \/ \E index \in 0..(Len(colorPalette) - 1) : applyColorByIndex(index)
    \/ removeHighlightSelection
    \/ tagSelection
    \/ \E tag \in TagChoices : submitTags(tag)
    \/ annotateSelection
    \/ \E comment \in Comments : submitAnnotation(comment)
    \/ closeModal
    \/ undoLastHighlight

SpecUndo == InitUndo /\ [][NextUndo]_vars

\* The operations that save the undo state before they locate the selection.
SavingOperations ==
    {"highlightSelection", "applyColorHighlight", "removeHighlightSelection", "tagSelection"}

\* C27: an operation that writes nothing leaves the undo state as it was: a
\* highlight, colour, tag or remove attempt whose selection cannot be located
\* keeps in lastModification the content saved before the last operation
\* that wrote, so that the next undo reverts that operation.
FailedAttemptKeepsUndoState ==
    [][(/\ pc' \in SavingOperations
        /\ Trim(snippet) # <<>>
        /\ ~result'.found)
       => (/\ written' = written
           /\ raw' = raw
           /\ lastModification' = lastModification)]_vars

\* What the attempt does: it writes nothing, and the undo state is the
\* content it found, so that the next undo writes the document back as it is.
FailedAttemptSavesCurrentContent ==
    [][(/\ pc' \in SavingOperations
        /\ Trim(snippet) # <<>>
        /\ ~result'.found)
       => (/\ written' = written
           /\ raw' = raw
           /\ lastModification' = [set |-> TRUE, original |-> raw])]_vars

\* An annotation that cannot be located, a blank comment and a modal closed
\* without a choice leave the undo state as it was.
AnnotationAttemptKeepsUndoState ==
    [][(pc' \in {"annotateSelection", "submitAnnotation", "closeModal"}
            /\ written' = written)
       => lastModification' = lastModification]_vars

----------------------------------------------------------------------------
(* Remove mode on a span that holds blank lines and no highlight marker. *)

MaxBlankLen == 5

InitBlank ==
    \E doc \in TextsUpTo({"a", " ", "\n"}, MaxBlankLen) :
        \E snip \in {s \in Pieces(doc) : Trim(s) # <<>>} :
            Selected(doc, snip, <<>>, 0)

SpecBlank == InitBlank /\ [][removeHighlightSelection]_vars

\* C28: the rewriting keeps the text between paragraphs as it is: for a span
\* with blank-line separators of any shape (several blank lines, blank lines
\* that hold spaces) and no highlight marker, remove mode writes the document
\* it read, byte for byte.
RemoveKeepsBlankLines ==
    [][(written' = written + 1 /\ ~HasMarker(raw)) => raw' = raw]_vars

\* What holds: the document is written as it was read when every separator
\* in the span is one empty line.
RemoveKeepsSingleBlankLines ==
    [][(/\ written' = written + 1
        /\ ~HasMarker(raw)
        /\ \A i \in 0..(Len(raw) - 1) :
               SeparatorEnd(raw, i) # -1 => SeparatorEnd(raw, i) = i + 2)
       => raw' = raw]_vars

----------------------------------------------------------------------------
(* The span of every result. *)

\* C29: every result of locateSelection that is not null, for a snippet that
\* is not empty after trimming, is a span of the text returned with it:
\* 0 <= start < end <= len(raw), on the exact path and on the stripped path,
\* a match that ends at the last stripped character included.
SpanIsWithinText ==
    (pc = "located" /\ result.found) =>
        /\ result.raw = raw
        /\ 0 <= result.start
        /\ result.start < result.end
        /\ result.end <= Len(result.raw)
        /\ \A k \in 1..Len(candidates) :
               /\ 0 <= candidates[k].start
               /\ candidates[k].start < candidates[k].end
               /\ candidates[k].end <= Len(raw)

\* C29: the stripped search found a match that ends at the last stripped
\* character, and markup follows it in the text.
SpanIsWithinTextWitness ==
    /\ pc = "located"
    /\ result.found
    /\ findAllCandidates(raw, snippet) = <<>>
    /\ result.end = BuildStripped(raw).map[Len(BuildStripped(raw).map)] + 1
    /\ result.end < Len(raw)

----------------------------------------------------------------------------
(* Annotations one after the other, each on the document the last one     *)
(* wrote.  The ids stay far below 2^53, where parseInt and + 1 are exact.  *)

MaxAnnotations == 3
MaxFootnotePieces == 2
MaxSpanEnd == 3

FootnotePieces ==
    { <<"a">>, <<" ">>, <<"[", "^", "1", "]">>, <<"[", "^", "9", "]">>,
      <<"[", "^", "0", "7", "]">>, <<"[", "^", "x", "]">>, <<"[", "^">>, <<"7", "]">> }

InitFootnotes ==
    \E pieces \in TextsUpTo(FootnotePieces, MaxFootnotePieces) :
        /\ pieces # <<>>
        /\ Selected(Concat(pieces), <<>>, <<>>, 0)

\* applyAnnotation(file, raw, start, end, comment) for a span that ends at
\* offset end of the document as it is now.
annotateAt(end, comment) ==
    /\ written < MaxAnnotations
    /\ Modify(applyAnnotation(raw, end, comment))
    /\ pc' = "applyAnnotation"
    /\ UNCHANGED <<snippet, context, occurrenceIndex, candidates, validCandidates,
                   result, map, strippedRaw, lastIndex, lastModification, settings,
                   notice, modal>>
    /\ UNCHANGED expansion

\* The annotated span ends within the first MaxSpanEnd characters.
NextFootnotes ==
    \E end \in 1..Min({Len(raw), MaxSpanEnd}) : annotateAt(end, <<"c">>)

SpecFootnotes == InitFootnotes /\ [][NextFootnotes]_vars

\* The numbers of the footnote ids "[^d]" of text, d a run of digits.
NumericIds(text) ==
    { ParseInt(Substring(text, i + 2, SkipClass(text, i + 2, Digits))) :
          i \in { p \in 0..Len(text) :
                    /\ StartsWith(text, p, <<"[", "^">>)
                    /\ SkipClass(text, p + 2, Digits) > p + 2
                    /\ CharAt(text, SkipClass(text, p + 2, Digits)) = "]" } }

\* The number of the definition "[^n]: c" that is the last line of text.
LastDefined(text) ==
    LET from == LastIndexOf(text, "[", Len(text))
        to   == LastIndexOf(text, "]", Len(text))
    IN  ParseInt(Substring(text, from + 2, to))

\* C30: the footnote number applyAnnotation takes is one more than the
\* largest numeric footnote id "[^d]" of the text it is given (1 when there is
\* none), so it is none of the numeric ids of that text; in a sequence of
\* annotations, each on the document the last one wrote, the numbers grow
\* strictly and no two annotations get the same number.
FootnoteNumbersGrow ==
    [][written' = written + 1
       => \E n \in {LastDefined(raw')} :
              /\ \A d \in NumericIds(raw) : n > d
              /\ n = 1 \/ (n - 1) \in NumericIds(raw)
              /\ n \in NumericIds(raw')
              /\ written >= 1 => n > LastDefined(raw)
              /\ \E end \in 1..Min({Len(raw), MaxSpanEnd}) :
                     raw' = TrimEnd(Substring(raw, 0, end) \o <<"[", "^">> \o ToDigits(n)
                                        \o <<"]">> \o Substring(raw, end, Len(raw)))
                            \o <<"\n", "\n", "[", "^">> \o ToDigits(n)
                            \o <<"]", ":", " ", "c", "\n">>]_vars

\* C30: three annotations on a document that held "[^9]" have got the
\* numbers 10, 11 and 12.
FootnoteNumbersGrowWitness ==
    /\ written = 3
    /\ LastDefined(raw) = 12
    /\ {9, 10, 11, 12} \subseteq NumericIds(raw)

====
